---------------------------- MODULE Spec2Model ----------------------------
(***************************************************************************)
(* Cerebot: the Discord manager (src/cerebot/discord.py).  The model       *)
(* follows DiscordManager (the channel source cache and the gateway        *)
(* callbacks), DiscordSource (the permission predicates) and the bot       *)
(* command handlers, each handler as the sequence of suspension points     *)
(* (outbound calls and sleeps) its coroutine goes through.                 *)
(***************************************************************************)
EXTENDS Integers, Sequences, FiniteSets, TLC

(***************************************************************************)
(* Bounds of the model.                                                    *)
(***************************************************************************)
\* Messages the gateway delivers in one run.
MaxMsgs == 2
\* Animations started in one run of SpecAnim.
MaxAnims == 2
\* The clock stops advancing here (seconds).
MaxTime == 3600
\* on_ready events in one run.
MaxReady == 2
\* disconnect() calls of the manager's owner in one run.
MaxDisconnects == 2
\* Messages in one run of SpecRate.
MaxRateMsgs == 4
\* Member updates in one run of SpecMember.
MaxUpdates == 3
\* The longest target of firestorm and glaciate in SpecFrames.
MaxTarget == 5
\* The longest target of firestorm and glaciate in SpecCenter.
MaxString == 18

(***************************************************************************)
(* The Discord world the client is connected to.                           *)
(***************************************************************************)
None == "None"

\* discord.py user ids.  User 4 is on no server (it can only reach the bot
\* by private message); user 3 is an automated account (user.bot).
Users == 1 .. 4
BotUsers == {3}

Servers == {"srvA", "srvB"}
ServerMembers == [srvA |-> {1, 2, 3}, srvB |-> {1, 2, 3}]
ServerName == [srvA |-> "Roguelikes", srvB |-> "Rogue"]

\* Channels: two text channels (one per server) and one private channel.
Channels == {"chanA", "chanB", "pm"}
is_private == [chanA |-> FALSE, chanB |-> FALSE, pm |-> TRUE]
ChannelServer == [chanA |-> "srvA", chanB |-> "srvB", pm |-> None]
ChannelName == [chanA |-> "crawl", chanB |-> "general", pm |-> None]

\* Who can write where: the members of a text channel's server, anyone in a
\* private channel.
Authors(c) == IF is_private[c] THEN Users ELSE ServerMembers[ChannelServer[c]]

\* str.lower() on the strings of the model.
Lower ==
  [s \in {"Ogre", "ogre", "OGRE", "Mod", "mod", "Bot", "@everyone", "Elf",
          "streaming", "Streaming", "nosuch", "Roguelikes", "roguelikes", "Rogue", "rogue",
          "crawl", "Crawl", "general", "gen", "zzz"} |->
     CASE s \in {"Ogre", "ogre", "OGRE"} -> "ogre"
       [] s \in {"Mod", "mod"} -> "mod"
       [] s = "Bot" -> "bot"
       [] s = "Elf" -> "elf"
       [] s = "Streaming" -> "streaming"
       [] s \in {"Roguelikes", "roguelikes"} -> "roguelikes"
       [] s \in {"Rogue", "rogue"} -> "rogue"
       [] s \in {"crawl", "Crawl"} -> "crawl"
       [] OTHER -> s]

\* a in b for the lowercased strings of the model (substring).
IsSubstring(a, b) ==
  \/ a = b
  \/ <<a, b>> \in {<<"rogue", "roguelikes">>, <<"gen", "general">>}

\* server.roles, in the server's order.  A role is compared by id.
ServerRoles ==
  [srvA |-> << [id |-> 1, name |-> "@everyone", position |-> 0,
                is_everyone |-> TRUE, permissions |-> "default"],
               [id |-> 2, name |-> "Ogre", position |-> 1,
                is_everyone |-> FALSE, permissions |-> "default"],
               [id |-> 3, name |-> "ogre", position |-> 2,
                is_everyone |-> FALSE, permissions |-> "default"],
               [id |-> 4, name |-> "Mod", position |-> 3,
                is_everyone |-> FALSE, permissions |-> "manage"],
               [id |-> 5, name |-> "Bot", position |-> 4,
                is_everyone |-> FALSE, permissions |-> "default"] >>,
   srvB |-> << [id |-> 6, name |-> "@everyone", position |-> 0,
                is_everyone |-> TRUE, permissions |-> "default"],
               [id |-> 7, name |-> "Elf", position |-> 1,
                is_everyone |-> FALSE, permissions |-> "default"],
               [id |-> 8, name |-> "Bot", position |-> 2,
                is_everyone |-> FALSE, permissions |-> "default"],
               [id |-> 9, name |-> "Streaming", position |-> 3,
                is_everyone |-> FALSE, permissions |-> "default"] >>]

\* server.me.roles: the bot holds the role "Bot" on srvA only.
MeRoles == [srvA |-> {5}, srvB |-> {}]
\* server.default_role.permissions
DefaultPermissions == [srvA |-> "default", srvB |-> "default"]

\* The roles the members hold when the client connects.
InitialRoles ==
  [srvA |-> [u \in {1, 2, 3} |-> CASE u = 1 -> {2} [] u = 2 -> {3} [] OTHER -> {}],
   srvB |-> [u \in {1, 2, 3} |-> {}]]

\* The configurations (conf['admins'], conf['ignored_users'], ...) the runs
\* start from: nobody listed; one admin and one ignored user; one where user
\* 1 is on both lists, the bot account 3 is an admin and user 4, who is on no
\* server, is listed as an admin.  command_limit invocations are allowed per
\* command_period seconds.
ConfChoices ==
  { [admins |-> {}, ignored_users |-> {}, fake_connect |-> FALSE,
     set_streaming_role |-> FALSE, command_limit |-> 3, command_period |-> 899],
    [admins |-> {1}, ignored_users |-> {2}, fake_connect |-> FALSE,
     set_streaming_role |-> TRUE, command_limit |-> 3, command_period |-> 899],
    [admins |-> {1, 3, 4}, ignored_users |-> {1, 2}, fake_connect |-> FALSE,
     set_streaming_role |-> TRUE, command_limit |-> 3, command_period |-> 899] }

\* A configuration with fake_connect set.
FakeConf ==
  [admins |-> {2}, ignored_users |-> {}, fake_connect |-> TRUE,
   set_streaming_role |-> FALSE, command_limit |-> 3, command_period |-> 899]

\* A configuration with a limit of two invocations per window.
RateConf ==
  [admins |-> {1}, ignored_users |-> {}, fake_connect |-> FALSE,
   set_streaming_role |-> FALSE, command_limit |-> 2, command_period |-> 899]

VARIABLES
  now,            \* time.time(), in seconds
  is_logged_in,   \* discord.Client.is_logged_in
  is_closed,      \* discord.Client.is_closed
  ping_task,      \* DiscordManager.ping_task: NoTask, or the task's place in pings
  shutdown,       \* DiscordManager.shutdown
  conf,           \* DiscordManager.conf
  sources,        \* DiscordManager.sources: the cached DiscordSource objects
  next_source,    \* DiscordSource objects constructed so far
  roles,          \* member.roles, per server and member (role ids)
  debug,          \* _log.isEnabledFor(logging.DEBUG)
  gateway,        \* the last on_message event: [id, channel, author, content, logged_in]
  reading,        \* the last source.read_chat call: [id, source, channel, author]
  tasks,          \* the suspended on_message coroutines, by message id
  pings,          \* the start_ping tasks, in the order on_ready created them
  scheduled,      \* disconnect() calls scheduled by ensure_future, not yet run
  errlog,         \* log_exception calls so far, by message
  disc,           \* the disconnect() calls so far and how the last one ended
  member,         \* the last on_member_update event and the role call it made
  message_times,  \* per cached source, the times of its logged invocations
  fx              \* the last random perturbation of an animation frame

\* The ping task, the log and the disconnect calls.
life == <<pings, scheduled, errlog, disc>>

\* What the message path never touches.
aux == <<member, fx>>

vars == <<now, is_logged_in, is_closed, ping_task, shutdown, conf, sources,
          next_source, roles, debug, gateway, reading, tasks, pings, scheduled,
          errlog, disc, member, message_times, fx>>

(***************************************************************************)
(* DiscordSource: the permission predicates.                               *)
(***************************************************************************)
\* server.get_member(u) == user: the member of server s with id u, compared
\* with the author of the message by id.
get_member_is(s, u, user) == u \in ServerMembers[s] /\ u = user

\* user_is_admin with the list of admins taken once, when the bot started
\* with user 1 as its admin.
user_is_admin_cached(user) ==
  \E u \in {1} : \E s \in Servers : get_member_is(s, u, user)

user_is_admin(user) ==
  IF conf.admins = {} THEN FALSE
  ELSE \E u \in conf.admins : \E s \in Servers : get_member_is(s, u, user)

user_is_ignored(user) ==
  IF conf.ignored_users = {} THEN FALSE
  ELSE \E u \in conf.ignored_users : \E s \in Servers : get_member_is(s, u, user)

\* is_allowed_user with the test of user.bot made first.
is_allowed_user_bot_first(user) ==
  IF user \in BotUsers THEN FALSE
  ELSE IF user_is_admin(user) THEN TRUE
  ELSE IF user_is_ignored(user) THEN FALSE
  ELSE TRUE

\* is_allowed_user without the look at the ignored-users list.
is_allowed_user_no_ignore(user) ==
  IF user_is_admin(user) THEN TRUE
  ELSE IF user \in BotUsers THEN FALSE
  ELSE TRUE

is_allowed_user(user) ==
  IF user_is_admin(user) THEN TRUE
  ELSE IF user \in BotUsers THEN FALSE
  ELSE IF user_is_ignored(user) THEN FALSE
  ELSE TRUE

(***************************************************************************)
(* The command table.                                                      *)
(***************************************************************************)
AnyToken == ".+$"
AnyText == ".*"
OnOff == "(on|off)$"

\* bot_commands: the entries with the keys the source gives each of them.
bot_commands ==
  [listcommands |-> [unlogged |-> TRUE, function |-> "bot_listcommands_command"],
   botstatus    |-> [require_admin |-> TRUE, function |-> "bot_botstatus_command"],
   debugmode    |-> [require_admin |-> TRUE,
                     args |-> << [pattern |-> OnOff, description |-> "on|off",
                                  required |-> FALSE] >>,
                     source_restriction |-> "admin",
                     function |-> "bot_debugmode_command"],
   bothelp      |-> [unlogged |-> TRUE, function |-> "bot_help_command"],
   listroles    |-> [require_public_channel |-> TRUE, unlogged |-> TRUE,
                     function |-> "bot_listroles_command"],
   addrole      |-> [require_public_channel |-> TRUE,
                     args |-> << [pattern |-> AnyToken, description |-> "ROLE",
                                  required |-> TRUE] >>,
                     function |-> "bot_addrole_command"],
   removerole   |-> [require_public_channel |-> TRUE,
                     args |-> << [pattern |-> AnyToken, description |-> "ROLE",
                                  required |-> TRUE] >>,
                     function |-> "bot_removerole_command"],
   glasses      |-> [require_public_channel |-> TRUE, unlogged |-> TRUE,
                     source_restriction |-> "channel",
                     function |-> "bot_glasses_command"],
   deal         |-> [require_public_channel |-> TRUE, unlogged |-> TRUE,
                     function |-> "bot_deal_command"],
   dance        |-> [require_public_channel |-> TRUE, unlogged |-> TRUE,
                     function |-> "bot_dance_command"],
   botdance     |-> [require_public_channel |-> TRUE, unlogged |-> TRUE,
                     function |-> "bot_botdance_command"],
   say          |-> [require_admin |-> TRUE,
                     args |-> << [pattern |-> AnyToken, description |-> "SERVER",
                                  required |-> TRUE],
                                 [pattern |-> AnyToken, description |-> "CHANNEL",
                                  required |-> TRUE],
                                 [pattern |-> AnyToken, description |-> "MESSAGE",
                                  required |-> TRUE] >>,
                     function |-> "bot_say_command"],
   firestorm    |-> [require_public_channel |-> TRUE, unlogged |-> TRUE,
                     args |-> << [pattern |-> AnyText, description |-> "target",
                                  required |-> FALSE] >>,
                     function |-> "bot_firestorm_command"],
   glaciate     |-> [require_public_channel |-> TRUE, unlogged |-> TRUE,
                     args |-> << [pattern |-> AnyText, description |-> "target",
                                  required |-> FALSE] >>,
                     function |-> "bot_glaciate_command"]]

CommandNames == DOMAIN bot_commands

\* entry.get(key) for a flag of the entry.
\* Flag that never sees the key "unlogged".
Flag_no_unlogged(entry, key) == key # "unlogged" /\ key \in DOMAIN entry /\ entry[key]

Flag(entry, key) == key \in DOMAIN entry /\ entry[key]

\* The specs of the entry with none of them required.
ArgSpecs_optional(entry) ==
  IF "args" \in DOMAIN entry
  THEN [k \in 1 .. Len(entry.args) |-> [entry.args[k] EXCEPT !.required = FALSE]]
  ELSE << >>

\* entry.get("args", [])
ArgSpecs(entry) == IF "args" \in DOMAIN entry THEN entry.args ELSE << >>

(***************************************************************************)
(* The permission check of a command.                                      *)
(***************************************************************************)
AdminOnlyError == "This command must be run by an admin."
PublicChannelError == "This command must be run in a public channel."

\* ChatWatcher.check_bot_command_restrictions (beem): the error it raises,
\* or None.
ChatWatcher_check_bot_command_restrictions(user, entry) ==
  IF Flag(entry, "require_admin") /\ ~user_is_admin(user)
  THEN AdminOnlyError
  ELSE None

\* check_bot_command_restrictions without the early return for an admin.
check_no_admin_bypass(channel, user, entry) ==
  LET super == ChatWatcher_check_bot_command_restrictions(user, entry) IN
  IF super # None THEN super
  ELSE IF Flag(entry, "require_public_channel") /\ is_private[channel]
       THEN PublicChannelError
  ELSE None

\* check_bot_command_restrictions without the look at the channel.
check_no_public_channel(channel, user, entry) ==
  ChatWatcher_check_bot_command_restrictions(user, entry)

\* check_bot_command_restrictions without the call of the parent's check.
check_no_super(channel, user, entry) ==
  IF user_is_admin(user) THEN None
  ELSE IF Flag(entry, "require_public_channel") /\ is_private[channel]
       THEN PublicChannelError
  ELSE None

\* DiscordSource.check_bot_command_restrictions in the source of `channel`:
\* the message of the BotCommandException it raises, or None.
check_bot_command_restrictions(channel, user, entry) ==
  LET super == ChatWatcher_check_bot_command_restrictions(user, entry) IN
  IF super # None THEN super
  ELSE IF user_is_admin(user) THEN None
  ELSE IF Flag(entry, "require_public_channel") /\ is_private[channel]
       THEN PublicChannelError
  ELSE None

(***************************************************************************)
(* The command handlers.  A handler is the sequence of the operations at   *)
(* which its coroutine suspends (outbound calls and sleeps), computed up   *)
(* to its first suspension from the state it is called in; "raise" ends    *)
(* it with a BotCommandException, "throw" with any other exception.        *)
(***************************************************************************)
RECURSIVE Concat(_)
Concat(ss) == IF ss = << >> THEN << >> ELSE Head(ss) \o Concat(Tail(ss))

\* mgr.send_message(channel, text); text is the message's lines.
SendMessage(channel, text, n) ==
  [op |-> "send_message", to |-> channel, text |-> text, n |-> n]
\* mgr.edit_message(message, text)
EditMessage(text, n) ==
  [op |-> "edit_message", to |-> None, text |-> text, n |-> n]
\* asyncio.sleep(ms / 1000)
Sleep(ms) == [op |-> "sleep", to |-> None, text |-> << >>, n |-> ms]
\* mgr.add_roles(user, role), mgr.remove_roles(user, role)
AddRoles(role) == [op |-> "add_roles", to |-> None, text |-> << >>, n |-> role]
RemoveRoles(role) == [op |-> "remove_roles", to |-> None, text |-> << >>, n |-> role]
\* raise BotCommandException(text)
Raise(text, arg) ==
  [op |-> "raise", to |-> None, text |-> <<text, arg>>, n |-> 0]
\* an exception that is no BotCommandException
Throw(what) == [op |-> "throw", to |-> None, text |-> <<what>>, n |-> 0]

\* DiscordSource.send_chat: the cleaned message goes to the source's channel.
send_chat(channel, text, arg) ==
  [op |-> "send_chat", to |-> channel, text |-> <<text, arg>>, n |-> 0]

OutboundOps == {"send_message", "send_chat", "edit_message", "add_roles",
                "remove_roles"}

\* DiscordSource.get_vanity_roles: None, or the list of the vanity roles.
get_vanity_roles(channel) ==
  IF is_private[channel] THEN None
  ELSE
    LET server == ChannelServer[channel]
        rs == ServerRoles[server]
        bots == {i \in 1 .. Len(rs) :
                   rs[i].name = "Bot" /\ rs[i].id \in MeRoles[server]}
    IN IF bots = {} THEN None
       ELSE
         LET bot_role == rs[CHOOSE i \in bots : \A j \in bots : i <= j]
         IN SelectSeq(rs, LAMBDA r :
                        /\ r.position < bot_role.position
                        /\ ~r.is_everyone
                        /\ r.permissions = DefaultPermissions[server])

\* `not roles`: None or the empty list.
NoRoles(rs) == rs = None \/ rs = << >>

\* The first role of the list whose lowercased name is the lowercased
\* argument: its index, or 0.
FirstRoleNamed(rs, rolename) ==
  LET hits == {i \in 1 .. Len(rs) : Lower[rolename] = Lower[rs[i].name]}
  IN IF hits = {} THEN 0 ELSE CHOOSE i \in hits : \A j \in hits : i <= j

\* user.roles of the author in the channel's server.
UserRoles(channel, user) == roles[ChannelServer[channel]][user]

bot_listcommands_command(channel, user) ==
  LET commands == {com \in CommandNames :
                     check_bot_command_restrictions(channel, user,
                                                    bot_commands[com]) = None}
  IN << [send_chat(channel, "Available commands: {}", "")
           EXCEPT !.n = Cardinality(commands)] >>

bot_botstatus_command(channel, user) ==
  << send_chat(channel, "Version: {}; Listening to servers: {}", "") >>

\* bot_debugmode_command: the level it leaves the logger at.
bot_debugmode_level(state) ==
  LET state_desc == IF debug THEN "on" ELSE "off" IN
  IF state = None \/ state = state_desc THEN debug ELSE state = "on"

bot_debugmode_command(channel, user, state) ==
  LET state_desc == IF debug THEN "on" ELSE "off" IN
  IF state = None
  THEN << send_chat(channel, "DEBUG level logging is currently {}.", state_desc) >>
  ELSE IF state = state_desc
  THEN << Raise("DEBUG level already set to {}", state) >>
  ELSE << send_chat(channel, "DEBUG level logging set to {}.", state) >>

\* beem.chat.bot_help_command
bot_help_command(channel, user) ==
  << send_chat(channel, "help", "") >>

bot_listroles_command(channel, user) ==
  LET rs == get_vanity_roles(channel) IN
  IF NoRoles(rs) THEN << Raise("No available roles found.", "") >>
  ELSE << [send_chat(channel, "roles", "") EXCEPT !.n = Len(rs)] >>

\* bot_addrole_command without the look at the roles the member holds.
bot_addrole_no_held_check(channel, user, rolename) ==
  LET rs == get_vanity_roles(channel) IN
  IF NoRoles(rs) THEN << Raise("No available roles found.", "") >>
  ELSE
    LET i == FirstRoleNamed(rs, rolename) IN
    IF i = 0 THEN << Raise("Unknown role: {}", rolename) >>
    ELSE << AddRoles(rs[i].id),
            send_chat(channel, "Member {} has been given role {}", rolename) >>

bot_addrole_command(channel, user, rolename) ==
  LET rs == get_vanity_roles(channel) IN
  IF NoRoles(rs) THEN << Raise("No available roles found.", "") >>
  ELSE IF rolename = None          \* rolename.lower() on None
  THEN << Throw("AttributeError: 'NoneType' object has no attribute 'lower'") >>
  ELSE
    LET i == FirstRoleNamed(rs, rolename) IN
    IF i = 0 THEN << Raise("Unknown role: {}", rolename) >>
    ELSE IF rs[i].id \in UserRoles(channel, user)
    THEN << Raise("Member {} already has role {}", rolename) >>
    ELSE << AddRoles(rs[i].id),
            send_chat(channel, "Member {} has been given role {}", rolename) >>

bot_removerole_command(channel, user, rolename) ==
  LET rs == get_vanity_roles(channel) IN
  IF rs = None THEN << Throw("TypeError: 'NoneType' object is not iterable") >>
  ELSE IF rolename = None /\ rs # << >>   \* rolename.lower() on None
  THEN << Throw("AttributeError: 'NoneType' object has no attribute 'lower'") >>
  ELSE IF rolename = None THEN << Raise("Unknown role: {}", rolename) >>
  ELSE
    LET i == FirstRoleNamed(rs, rolename) IN
    IF i = 0 THEN << Raise("Unknown role: {}", rolename) >>
    ELSE IF rs[i].id \notin UserRoles(channel, user)
    THEN << Raise("Member {} does not have role {}", rolename) >>
    ELSE << RemoveRoles(rs[i].id),
            send_chat(channel, "Member {} has lost role {}", rolename) >>

\* bot_glasses_command sending its second frame as a new message.
bot_glasses_resend(channel, user) ==
  << SendMessage(channel, <<"( o_o)">>, 0),
     Sleep(500),
     SendMessage(channel, <<"( o_o)>-#-#">>, 0),
     Sleep(500),
     EditMessage(<<"(-#_#)">>, 0) >>

bot_glasses_command(channel, user) ==
  << SendMessage(channel, <<"( o_o)">>, 0),
     Sleep(500),
     EditMessage(<<"( o_o)>-#-#">>, 0),
     Sleep(500),
     EditMessage(<<"(-#_#)">>, 0) >>

bot_deal_command(channel, user) ==
  LET glasses == "    -#-#    "
      glasson == "   (-#_#)   "
      dealwith == "deal with it"
      blank == "            "
      lines == <<blank, blank, blank, "    (o_o)   ">>
      \* for i in range(3): lines[:i] + [glasses] + lines[i + 1:]
      loop == [j \in 1 .. 3 |->
                 << EditMessage(SubSeq(lines, 1, j - 1) \o <<glasses>>
                                  \o SubSeq(lines, j + 1, Len(lines)), 0),
                    Sleep(500) >>]
  IN << SendMessage(channel, lines, 0), Sleep(500) >>
       \o Concat(loop)
       \o << EditMessage(SubSeq(lines, 1, 1) \o <<dealwith>>
                           \o SubSeq(lines, 3, 3) \o <<glasson>>, 0) >>

\* The loop shared by dance and botdance:
\* for n in range(2): for f in figures[0 if n else 1:]: edit, sleep.
FigureLoop(figures) ==
  LET round(n) == LET fs == SubSeq(figures, IF n # 0 THEN 1 ELSE 2, Len(figures))
                  IN Concat([k \in 1 .. Len(fs) |->
                               << EditMessage(<<fs[k]>>, 0), Sleep(250) >>])
  IN round(0) \o round(1)

bot_dance_command(channel, user) ==
  LET figures == <<":D|-<", ":D/-<", ":D|-<", ":D\\\\-<">> IN
  << SendMessage(channel, <<figures[1]>>, 0), Sleep(250) >>
    \o FigureLoop(figures)
    \o << EditMessage(<<figures[1]>>, 0) >>

bot_botdance_command(channel, user) ==
  LET figures == <<"L[^_^]7", "r[^_^]J">> IN
  << SendMessage(channel, <<figures[1]>>, 0), Sleep(250) >>
    \o FigureLoop(figures)
    \o << EditMessage(<<figures[1]>>, 0) >>

\* The destination a name of the say command picks among `names` (a
\* sequence): an exact match ends the search, a substring match is kept
\* until a later one replaces it.  0 when nothing matches.
SayMatch(names, arg) ==
  LET exact == {i \in 1 .. Len(names) : Lower[arg] = Lower[names[i]]}
      part == {i \in 1 .. Len(names) : IsSubstring(Lower[arg], Lower[names[i]])}
  IN IF exact # {} THEN CHOOSE i \in exact : \A j \in exact : i <= j
     ELSE IF part # {} THEN CHOOSE i \in part : \A j \in part : i >= j
     ELSE 0

\* mgr.servers, and the text channels of a server, in iteration order.
ServerOrder == <<"srvA", "srvB">>
TextChannels == [srvA |-> <<"chanA">>, srvB |-> <<"chanB">>]

bot_say_command(channel, user, server, chan, message) ==
  IF server = None \/ chan = None   \* server.lower(), channel.lower() on None
  THEN << Throw("AttributeError: 'NoneType' object has no attribute 'lower'") >>
  ELSE
  LET s == SayMatch([i \in 1 .. Len(ServerOrder) |-> ServerName[ServerOrder[i]]],
                    server)
  IN IF s = 0
     THEN << Raise("Can't find server match for {}, must match one of: {}", server) >>
     ELSE
       LET channels == TextChannels[ServerOrder[s]]
           c == SayMatch([i \in 1 .. Len(channels) |-> ChannelName[channels[i]]],
                         chan)
       IN IF c = 0
          THEN << Raise("Can't find channel match for {}, must match one of: {}",
                        chan) >>
          ELSE << SendMessage(channels[c], <<message>>, 0) >>

\* The frames of firestorm and glaciate are named by what they draw; n is
\* the radius of an explosion frame, the index of a fire frame.
bot_firestorm_command(channel, user, target) ==
  LET explosions == [k \in 1 .. 2 |->     \* for r in range(1, 5, 2)
                       << EditMessage(<<"explosion">>, 2 * k - 1), Sleep(200) >>]
      fires == [k \in 1 .. 3 |->          \* for i in range(0, 3)
                  << EditMessage(<<"fire">>, k - 1), Sleep(800) >>]
  IN << SendMessage(channel, <<"floor">>, 0), Sleep(1000) >>
       \o Concat(explosions)
       \o << Sleep(600) >>
       \o Concat(fires)

bot_glaciate_command(channel, user, target) ==
  LET explosions == [k \in 1 .. 4 |->     \* for r in range(1, 8, 2)
                       << EditMessage(<<"explosion">>, 2 * k - 1), Sleep(200) >>]
  IN << SendMessage(channel, <<"floor">>, 0), Sleep(1000) >>
       \o Concat(explosions)
       \o << EditMessage(<<"ice">>, 0) >>

\* entry["function"](source, user, *args)
CallHandler(command, channel, user, args) ==
  CASE command = "listcommands" -> bot_listcommands_command(channel, user)
    [] command = "botstatus" -> bot_botstatus_command(channel, user)
    [] command = "debugmode" -> bot_debugmode_command(channel, user, args[1])
    [] command = "bothelp" -> bot_help_command(channel, user)
    [] command = "listroles" -> bot_listroles_command(channel, user)
    [] command = "addrole" -> bot_addrole_command(channel, user, args[1])
    [] command = "removerole" -> bot_removerole_command(channel, user, args[1])
    [] command = "glasses" -> bot_glasses_command(channel, user)
    [] command = "deal" -> bot_deal_command(channel, user)
    [] command = "dance" -> bot_dance_command(channel, user)
    [] command = "botdance" -> bot_botdance_command(channel, user)
    [] command = "say" ->
         bot_say_command(channel, user, args[1], args[2], args[3])
    [] command = "firestorm" -> bot_firestorm_command(channel, user, args[1])
    [] command = "glaciate" -> bot_glaciate_command(channel, user, args[1])

(***************************************************************************)
(* ChatWatcher.read_chat (beem): the dispatch of one chat message.         *)
(***************************************************************************)
\* Whether a token matches an argument pattern of the command table.
PatternMatches(pattern, token) ==
  CASE pattern = OnOff -> token \in {"on", "off"}
    [] pattern = AnyToken -> token # ""
    [] pattern = AnyText -> TRUE

\* The arguments bound to the specs, left to right: a spec that matches
\* consumes a token, an optional one that does not match binds None, a
\* required one that does not match is a syntax error, and so is text left
\* over after the last spec.
RECURSIVE BindArgs(_, _)
BindArgs(specs, tokens) ==
  IF specs = << >>
  THEN [error |-> tokens # << >>, values |-> << >>]
  ELSE
    LET spec == Head(specs) IN
    IF tokens # << >> /\ PatternMatches(spec.pattern, Head(tokens))
    THEN LET rest == BindArgs(Tail(specs), Tail(tokens))
         IN [error |-> rest.error, values |-> <<Head(tokens)>> \o rest.values]
    ELSE IF spec.required
    THEN [error |-> TRUE, values |-> << >>]
    ELSE LET rest == BindArgs(Tail(specs), tokens)
         IN [error |-> rest.error, values |-> <<None>> \o rest.values]

\* The usage string of a command: its specs' descriptions joined.
RECURSIVE Usage(_)
Usage(specs) ==
  IF specs = << >> THEN << >> ELSE <<Head(specs).description>> \o Usage(Tail(specs))

GenericError == "Error: command failed"

ThrottleNotice == "Too many commands, slow down"

\* The rate limit state with the entries older than the window removed.
prune(times, t) == SelectSeq(times, LAMBDA x : ~(t - x > conf.command_period))

\* The invocation at time t is over the limit: the entries left in the
\* window are as many as the limit, or more.
rate_limited(times, t) == Len(prune(times, t)) >= conf.command_limit

\* What read_chat does with a message up to the handler's first suspension:
\* the outcome, the operations that follow it and the rate limit state of
\* the source after it (`times` before it).
read_chat(channel, user, content, times) ==
  IF ~is_allowed_user(user)
  THEN [outcome |-> "not_allowed", in_handler |-> FALSE, todo |-> << >>,
        times |-> times]
  ELSE IF ~content.bang \/ content.name \notin CommandNames
  THEN [outcome |-> "chat", in_handler |-> FALSE, todo |-> << >>,
        times |-> times]
  ELSE
    LET entry == bot_commands[content.name]
        bound == BindArgs(ArgSpecs(entry), content.args)
        denial == check_bot_command_restrictions(channel, user, entry)
        logged == ~Flag(entry, "unlogged")
    IN IF bound.error
       THEN [outcome |-> "syntax_error", in_handler |-> FALSE,
             todo |-> << [send_chat(channel, "Usage: {}", content.name)
                            EXCEPT !.text = <<"Usage: {}">> \o Usage(ArgSpecs(entry))] >>,
             times |-> times]
       ELSE IF denial # None
       THEN [outcome |-> "denied", in_handler |-> FALSE,
             todo |-> << send_chat(channel, denial, "") >>,
             times |-> times]
       ELSE IF logged /\ rate_limited(times, now)
       THEN [outcome |-> "throttled", in_handler |-> FALSE,
             todo |-> << send_chat(channel, ThrottleNotice, "") >>,
             times |-> prune(times, now)]
       ELSE [outcome |-> "handler", in_handler |-> TRUE,
             todo |-> CallHandler(content.name, channel, user, bound.values),
             times |-> IF logged THEN Append(prune(times, now), now) ELSE times]

\* The logger level after read_chat: only a debugmode handler changes it.
read_chat_debug(channel, user, content, times) ==
  LET r == read_chat(channel, user, content, times) IN
  IF r.outcome = "handler" /\ content.name = "debugmode"
  THEN bot_debugmode_level(BindArgs(ArgSpecs(bot_commands.debugmode),
                                    content.args).values[1])
  ELSE debug

(***************************************************************************)
(* The coroutine of one on_message event, between its suspension points.   *)
(***************************************************************************)
\* The call `op` is made and the coroutine waits for its result.
Issue(t, op, by) ==
  [t EXCEPT !.pc = "await",
            !.log = Append(@, [op |-> op.op, to |-> op.to, text |-> op.text,
                               n |-> op.n,
                               target |-> IF op.op = "edit_message"
                                          THEN t.handle ELSE 0,
                               by |-> by, status |-> "pending"])]

\* The send_chat by which the dispatcher relays an exception of the handler.
ExceptionReply(t, op) ==
  IF op.op = "raise"
  THEN [op |-> "send_chat", to |-> t.channel, text |-> op.text, n |-> 0]
  ELSE send_chat(t.channel, GenericError, "")

\* Advance with a sleep that does not suspend the coroutine (time.sleep).
Advance_blocking_sleep(t) ==
  LET todo == IF t.todo # << >> /\ Head(t.todo).op = "sleep" THEN Tail(t.todo)
              ELSE t.todo
      u == [t EXCEPT !.todo = todo]
  IN IF todo = << >> THEN [u EXCEPT !.pc = "done"]
     ELSE
       LET h == Head(todo) IN
       CASE h.op = "sleep" -> [u EXCEPT !.pc = "sleep", !.todo = Tail(@)]
         [] h.op \in {"raise", "throw"} ->
              Issue([u EXCEPT !.todo = << >>, !.in_handler = FALSE],
                    ExceptionReply(u, h), "dispatcher")
         [] OTHER ->
              Issue([u EXCEPT !.todo = Tail(@)], h,
                    IF u.in_handler THEN "handler" ELSE "dispatcher")

\* A resumed coroutine runs to its next suspension point, or to its end.
Advance(t) ==
  IF t.todo = << >> THEN [t EXCEPT !.pc = "done"]
  ELSE
    LET h == Head(t.todo) IN
    CASE h.op = "sleep" -> [t EXCEPT !.pc = "sleep", !.todo = Tail(@)]
      [] h.op \in {"raise", "throw"} ->
           Issue([t EXCEPT !.todo = << >>, !.in_handler = FALSE],
                 ExceptionReply(t, h), "dispatcher")
      [] OTHER ->
           Issue([t EXCEPT !.todo = Tail(@)], h,
                 IF t.in_handler THEN "handler" ELSE "dispatcher")

\* AfterFailedCall of a handler that catches the exception and goes on.
AfterFailedCall_goes_on(t) == t

\* What is left of a handler after one of its outbound calls raised: the
\* exception leaves the handler, which has no try block of its own.
AfterFailedCall(t) ==
  [t EXCEPT !.todo = << Throw("outbound call failed") >>]

\* The handle of the message a send_message created: new with every send.
NewHandle(id, t) == 10 * id + Len(t.log)

Live == DOMAIN tasks

Without(id) == [i \in Live \ {id} |-> tasks[i]]

With(id, t) == [i \in Live \cup {id} |-> IF i = id THEN t ELSE tasks[i]]

(***************************************************************************)
(* DiscordManager: the source cache and on_message.                        *)
(***************************************************************************)
_channel_idle_timeout == 30 * 60

\* A DiscordSource that was constructed and not given a time yet.
NoTime == -1

\* get_channel_source that takes a source of the cache whatever its channel.
get_channel_source_any(cache, channel) == cache

\* get_channel_source that finds no source in the cache.
get_channel_source_none(cache, channel) == {}

\* get_channel_source: the sources of the cache the loop can return for the
\* channel (none: the method returns None).
get_channel_source(cache, channel) == {s \in cache : s.channel = channel}

\* expire_idle_channels that keeps a source idle for the timeout exactly.
expire_idle_after_timeout(cache, current_time) ==
  {c \in cache : ~(current_time - c.time_last_message > _channel_idle_timeout)}

\* expire_idle_channels with the comparison turned around.
expire_idle_reversed(cache, current_time) ==
  {c \in cache : ~(current_time - c.time_last_message <= _channel_idle_timeout)}

\* expire_idle_channels: the cache after the sweep.
expire_idle_channels(cache, current_time) ==
  {c \in cache : ~(current_time - c.time_last_message >= _channel_idle_timeout)}

\* The rate limit state of a source: empty when the source is new.
TimesOf(source) ==
  IF source.id \in DOMAIN message_times THEN message_times[source.id] ELSE << >>

\* The rate limit states after a message: those of the sources the sweep
\* left, with the one of the message's source as read_chat left it.
KeepTimes(swept, source, times) ==
  [i \in {c.id : c \in swept} \cup {source.id} |->
     IF i = source.id THEN times ELSE message_times[i]]

\* HandleMessage that leaves out read_chat when the source is a new one.
HandleMessage_skips_new(id, channel, author, content, swept, source) ==
  LET r == IF source.time_last_message = NoTime
           THEN [outcome |-> "chat", in_handler |-> FALSE, todo |-> << >>,
                 times |-> << >>]
           ELSE read_chat(channel, author, content, TimesOf(source))
      t == [channel |-> channel, user |-> author, command |-> content.name,
            source |-> source.id, pc |-> "run", todo |-> r.todo,
            in_handler |-> r.in_handler, handle |-> 0, log |-> << >>]
  IN /\ sources' = (swept \ {source})
                     \cup {[source EXCEPT !.time_last_message = now]}
     /\ reading' = IF source.time_last_message = NoTime THEN reading
                   ELSE [id |-> id, source |-> source.id,
                         channel |-> source.channel, author |-> author,
                         outcome |-> r.outcome]
     /\ debug' = debug
     /\ message_times' = KeepTimes(swept, source, r.times)
     /\ tasks' = IF r.todo = << >> THEN tasks ELSE With(id, Advance(t))

\* HandleMessage that gives a source its time only after read_chat has
\* returned: a new source is cached as it was constructed.
HandleMessage_time_after_read(id, channel, author, content, swept, source) ==
  LET r == read_chat(channel, author, content, TimesOf(source))
      t == [channel |-> channel, user |-> author, command |-> content.name,
            source |-> source.id, pc |-> "run", todo |-> r.todo,
            in_handler |-> r.in_handler, handle |-> 0, log |-> << >>]
  IN /\ sources' = (swept \ {source})
                     \cup {IF r.todo = << >>
                           THEN [source EXCEPT !.time_last_message = now]
                           ELSE source}
     /\ reading' = [id |-> id, source |-> source.id, channel |-> source.channel,
                    author |-> author, outcome |-> r.outcome]
     /\ debug' = read_chat_debug(channel, author, content, TimesOf(source))
     /\ message_times' = KeepTimes(swept, source, r.times)
     /\ tasks' = IF r.todo = << >> THEN tasks ELSE With(id, Advance(t))

\* on_message once the client is logged in, with `source` the source found
\* in the swept cache, or the one constructed.
HandleMessage(id, channel, author, content, swept, source) ==
  LET r == read_chat(channel, author, content, TimesOf(source))
      t == [channel |-> channel, user |-> author, command |-> content.name,
            source |-> source.id, pc |-> "run", todo |-> r.todo,
            in_handler |-> r.in_handler, handle |-> 0, log |-> << >>]
  IN /\ sources' = (swept \ {source})
                     \cup {[source EXCEPT !.time_last_message = now]}
     /\ reading' = [id |-> id, source |-> source.id, channel |-> source.channel,
                    author |-> author, outcome |-> r.outcome]
     /\ debug' = read_chat_debug(channel, author, content, TimesOf(source))
     /\ message_times' = KeepTimes(swept, source, r.times)
     /\ tasks' = IF r.todo = << >> THEN tasks ELSE With(id, Advance(t))

\* on_message without the test of is_logged_in.
on_message_before_login(channel, author, content) ==
  /\ ~is_closed
  /\ author \in Authors(channel)
  /\ gateway' = [id |-> gateway.id + 1, channel |-> channel, author |-> author,
                 content |-> content, logged_in |-> is_logged_in]
  /\ IF FALSE
     THEN UNCHANGED <<sources, next_source, reading, debug, tasks, message_times>>
     ELSE
       LET swept == expire_idle_channels(sources, now)
           found == get_channel_source(swept, channel)
       IN IF found = {}
          THEN /\ next_source' = next_source + 1
               /\ HandleMessage(gateway.id + 1, channel, author, content, swept,
                                [id |-> next_source + 1, channel |-> channel,
                                 time_last_message |-> NoTime])
          ELSE /\ next_source' = next_source
               /\ \E source \in found :
                    HandleMessage(gateway.id + 1, channel, author, content,
                                  swept, source)
  /\ UNCHANGED <<now, is_logged_in, is_closed, ping_task, shutdown, conf, roles,
                 life, aux>>

on_message(channel, author, content) ==
  /\ ~is_closed
  /\ author \in Authors(channel)
  /\ gateway' = [id |-> gateway.id + 1, channel |-> channel, author |-> author,
                 content |-> content, logged_in |-> is_logged_in]
  /\ IF ~is_logged_in
     THEN UNCHANGED <<sources, next_source, reading, debug, tasks, message_times>>
     ELSE
       LET swept == expire_idle_channels(sources, now)
           found == get_channel_source(swept, channel)
       IN IF found = {}
          THEN /\ next_source' = next_source + 1
               /\ HandleMessage(gateway.id + 1, channel, author, content, swept,
                                [id |-> next_source + 1, channel |-> channel,
                                 time_last_message |-> NoTime])
          ELSE /\ next_source' = next_source
               /\ \E source \in found :
                    HandleMessage(gateway.id + 1, channel, author, content,
                                  swept, source)
  /\ UNCHANGED <<now, is_logged_in, is_closed, ping_task, shutdown, conf, roles,
                 life, aux>>

\* The result of the outbound call a coroutine waits for arrives.
Complete(id, ok) ==
  /\ id \in Live
  /\ tasks[id].pc = "await"
  /\ LET t == tasks[id]
         k == Len(t.log)
         call == t.log[k]
         server == ChannelServer[t.channel]
     IN IF ok
        THEN /\ tasks' = With(id, Advance(
                  [t EXCEPT !.log[k].status = "ok",
                            !.handle = IF call.op = "send_message"
                                       THEN NewHandle(id, t) ELSE @]))
             /\ roles' =
                  CASE call.op = "add_roles" ->
                         [roles EXCEPT ![server][t.user] = @ \cup {call.n}]
                    [] call.op = "remove_roles" ->
                         [roles EXCEPT ![server][t.user] = @ \ {call.n}]
                    [] OTHER -> roles
        ELSE /\ tasks' = With(id,
                  IF call.by = "handler"
                  THEN Advance(AfterFailedCall([t EXCEPT !.log[k].status = "failed"]))
                  ELSE [t EXCEPT !.log[k].status = "failed", !.pc = "done",
                                 !.todo = << >>])
             /\ roles' = roles
  /\ UNCHANGED <<now, is_logged_in, is_closed, ping_task, shutdown, conf,
                 sources, next_source, debug, gateway, reading, life, aux,
                 message_times>>

\* The sleep of a coroutine ends.
Wake(id) ==
  /\ id \in Live
  /\ tasks[id].pc = "sleep"
  /\ tasks' = With(id, Advance(tasks[id]))
  /\ UNCHANGED <<now, is_logged_in, is_closed, ping_task, shutdown, conf,
                 sources, next_source, roles, debug, gateway, reading, life, aux,
                 message_times>>

\* A coroutine that came to its end is released.
Finish(id) ==
  /\ id \in Live
  /\ tasks[id].pc = "done"
  /\ tasks' = Without(id)
  /\ UNCHANGED <<now, is_logged_in, is_closed, ping_task, shutdown, conf,
                 sources, next_source, roles, debug, gateway, reading, life, aux,
                 message_times>>

\* DiscordManager.start: login.
Start ==
  /\ ~is_logged_in
  /\ ~is_closed
  /\ is_logged_in' = TRUE
  /\ UNCHANGED <<now, is_closed, ping_task, shutdown, conf, sources,
                 next_source, roles, debug, gateway, reading, tasks, life, aux,
                 message_times>>

\* ping_task before the first on_ready (None).
NoTask == 0

\* The try block of disconnect without its except clause.
close_unguarded(close_ok) == [raised |-> ~close_ok, logged |-> FALSE]

\* The try block of disconnect around close(): an exception of close is
\* logged by log_exception and goes no further.
close_guarded(close_ok) == [raised |-> FALSE, logged |-> ~close_ok]

\* The first statement of disconnect: ping_task.cancel() when ping_task is
\* set and not done.  The cancellation reaches the task when it next runs.
cancel_ping(task) ==
  IF task # NoTask /\ pings[task].pc # "ended"
  THEN [pings EXCEPT ![task].cancel = TRUE]
  ELSE pings

\* The body of disconnect(shutdown), with the outcome of close().  Every
\* ping task that exists is marked as having seen a disconnect call.
RunDisconnect(flag, close_ok) ==
  LET cancelled == cancel_ping(ping_task)
      r == close_guarded(close_ok)
  IN /\ pings' = [i \in DOMAIN cancelled |->
                    [cancelled[i] EXCEPT !.disconnected = TRUE]]
     /\ IF conf.fake_connect \/ is_closed
        THEN /\ UNCHANGED <<is_closed, shutdown, errlog>>
             /\ disc' = [calls |-> disc.calls + 1, arg |-> flag,
                         close |-> "skipped", ended |-> "returned"]
        ELSE /\ is_closed' = close_ok
             /\ errlog' = IF r.logged
                          THEN [errlog EXCEPT !.disconnect = @ + 1]
                          ELSE errlog
             /\ shutdown' = IF r.raised THEN shutdown ELSE flag
             /\ disc' = [calls |-> disc.calls + 1, arg |-> flag,
                         close |-> IF close_ok THEN "ok" ELSE "failed",
                         ended |-> IF r.raised THEN "raised" ELSE "returned"]
     /\ UNCHANGED <<now, is_logged_in, ping_task, conf, sources, next_source,
                    roles, debug, gateway, reading, tasks, aux, message_times>>

\* DiscordManager.disconnect(shutdown), called by the owner of the manager.
disconnect(flag, close_ok) ==
  /\ RunDisconnect(flag, close_ok)
  /\ scheduled' = scheduled

\* A disconnect() that start_ping scheduled with ensure_future runs.
RunScheduled(close_ok) ==
  /\ scheduled > 0
  /\ scheduled' = scheduled - 1
  /\ RunDisconnect(FALSE, close_ok)

\* DiscordManager.on_ready: a new start_ping task is scheduled and becomes
\* ping_task; the task ping_task held before is left as it is.
on_ready ==
  /\ ~is_closed
  /\ pings' = Append(pings, [pc |-> "start", cancel |-> FALSE, how |-> None,
                             disconnected |-> FALSE])
  /\ ping_task' = Len(pings) + 1
  /\ UNCHANGED <<now, is_logged_in, is_closed, shutdown, conf, sources,
                 next_source, roles, debug, gateway, reading, tasks, scheduled,
                 errlog, disc, aux, message_times>>

\* start_ping resumed at the top of its loop: closed, or the next ping.
ping_loop(p) ==
  IF is_closed THEN [p EXCEPT !.pc = "ended", !.how = "closed"]
  ELSE [p EXCEPT !.pc = "ping"]

\* The event loop runs ping task i: it starts, its ws.ping() returns (ok) or
\* raises, or its sleep of 10 seconds ends.  A cancelled task gets
\* CancelledError where it is suspended, which ends it in every place.
PingStep(i, ok) ==
  /\ i \in DOMAIN pings
  /\ pings[i].pc # "ended"
  /\ LET p == pings[i] IN
     IF p.cancel
     THEN /\ pings' = [pings EXCEPT ![i].pc = "ended", ![i].how = "cancelled"]
          /\ UNCHANGED <<scheduled, errlog>>
     ELSE CASE p.pc \in {"start", "sleep"} ->
                 /\ pings' = [pings EXCEPT ![i] = ping_loop(p)]
                 /\ UNCHANGED <<scheduled, errlog>>
            [] p.pc = "ping" /\ ok ->
                 /\ pings' = [pings EXCEPT ![i].pc = "sleep"]
                 /\ UNCHANGED <<scheduled, errlog>>
            [] p.pc = "ping" /\ ~ok ->
                 /\ pings' = [pings EXCEPT ![i].pc = "ended", ![i].how = "failed"]
                 /\ errlog' = [errlog EXCEPT !.ping = @ + 1]
                 /\ scheduled' = scheduled + 1
  /\ UNCHANGED <<now, is_logged_in, is_closed, ping_task, shutdown, conf,
                 sources, next_source, roles, debug, gateway, reading, tasks,
                 disc, aux, message_times>>

\* The owner of the configuration changes it (manager.conf is the live
\* mapping the predicates read).
SetConf(c) ==
  /\ c # conf
  /\ conf' = c
  /\ UNCHANGED <<now, is_logged_in, is_closed, ping_task, shutdown, sources,
                 next_source, roles, debug, gateway, reading, tasks, life, aux,
                 message_times>>

\* time.time() advances.
Tick(d) ==
  /\ now + d <= MaxTime
  /\ now' = now + d
  /\ UNCHANGED <<is_logged_in, is_closed, ping_task, shutdown, conf, sources,
                 next_source, roles, debug, gateway, reading, tasks, life, aux,
                 message_times>>

TickSteps == {899, 900}

(***************************************************************************)
(* The messages the gateway delivers.                                      *)
(***************************************************************************)
Chat(text) == [bang |-> FALSE, name |-> text, args |-> << >>]
Command(name, args) == [bang |-> TRUE, name |-> name, args |-> args]

NoContent == Chat("")

Contents ==
  {Chat("hello"), Command("nosuch", << >>)}
    \cup {Command(c, << >>) : c \in CommandNames}
    \cup {Command("debugmode", <<a>>) : a \in {"on", "off", "zzz"}}
    \cup {Command("addrole", <<a>>) : a \in {"OGRE", "Mod", "nosuch"}}
    \cup {Command("removerole", <<a>>) : a \in {"OGRE", "nosuch"}}
    \cup {Command("say", a) : a \in {<<"rogue", "gen", "hello">>,
                                     <<"rogue">>,
                                     <<"zzz", "crawl", "hello">>,
                                     <<"Roguelikes", "zzz", "hello">>}}
    \cup {Command(c, <<"Ogre">>) : c \in {"firestorm", "glaciate"}}

AnimatedCommands == {"glasses", "deal", "dance", "botdance", "firestorm", "glaciate"}

\* DiscordManager.__init__ and the client before login, whatever conf is.
InitManager ==
  /\ now = 0
  /\ is_logged_in = FALSE
  /\ is_closed = FALSE
  /\ ping_task = NoTask
  /\ shutdown = FALSE
  /\ sources = {}
  /\ next_source = 0
  /\ roles = InitialRoles
  /\ debug = FALSE
  /\ gateway = [id |-> 0, channel |-> None, author |-> 0, content |-> NoContent,
                logged_in |-> FALSE]
  /\ reading = [id |-> 0, source |-> 0, channel |-> None, author |-> 0,
                outcome |-> None]
  /\ tasks = << >>
  /\ pings = << >>
  /\ scheduled = 0
  /\ errlog = [ping |-> 0, disconnect |-> 0]
  /\ disc = [calls |-> 0, arg |-> FALSE, close |-> None, ended |-> None]
  /\ member = [id |-> 0, server |-> None, user |-> 0, game |-> None,
               held |-> FALSE, call |-> None, pc |-> "idle"]
  /\ message_times = << >>
  /\ fx = [effect |-> None, target |-> << >>, row |-> 0, coords |-> {},
           before |-> << >>, after |-> << >>, step |-> None]

Init == conf \in ConfChoices /\ InitManager

(***************************************************************************)
(* Spec: the dispatch of commands, one invocation at a time, for every     *)
(* command, caller and kind of channel.                                    *)
(***************************************************************************)
Next ==
  \/ Start
  \/ /\ gateway.id < MaxMsgs
     /\ Live = {}
     /\ \E c \in {"chanA", "pm"}, u \in Users, content \in Contents :
          on_message(c, u, content)
  \/ \E id \in Live, ok \in BOOLEAN : Complete(id, ok)
  \/ \E id \in Live : Wake(id)
  \/ \E id \in Live : Finish(id)

Spec == Init /\ [][Next]_vars

(***************************************************************************)
(* Properties of the permission checks (Spec).                             *)
(***************************************************************************)
\* The message the gateway delivered last was handed to read_chat.
LastWasRead == gateway.id > 0 /\ reading.id = gateway.id

\* The entry of the command the last message names (a command of the table).
LastIsCommand == gateway.content.bang /\ gateway.content.name \in CommandNames
LastEntry == bot_commands[gateway.content.name]

\* The calls a coroutine's handler made, and those its dispatcher made.
HandlerCalls(t) == SelectSeq(t.log, LAMBDA e : e.by = "handler")
DispatcherCalls(t) == SelectSeq(t.log, LAMBDA e : e.by = "dispatcher")

\* C2: for a caller who is an admin, the permission check denies no command
\* of the table, in a private channel or a public one.
C2_AdminBypass ==
  \A u \in Users, c \in Channels, com \in CommandNames :
    user_is_admin(u) => check_bot_command_restrictions(c, u, bot_commands[com]) = None

\* An admin ran an admin-only command and a public-channel command in a
\* private channel.
C2_Witness ==
  /\ LastWasRead /\ LastIsCommand
  /\ user_is_admin(reading.author)
  /\ is_private[reading.channel]
  /\ Flag(LastEntry, "require_public_channel")
  /\ reading.outcome = "handler"

\* C3 as stated: a message of a caller on the ignored-users list runs no
\* handler and makes no outbound call, whatever else the caller is.
C3_IgnoredAlwaysDenied ==
  (LastWasRead /\ user_is_ignored(reading.author))
    => reading.outcome = "not_allowed" /\ gateway.id \notin Live

\* C3, amended: a message of a caller on the ignored-users list who is no
\* admin runs no handler and makes no outbound call, for every command and
\* channel; no coroutine with calls to make belongs to such a caller.
C3_IgnoredDenied ==
  /\ (LastWasRead /\ user_is_ignored(reading.author)
        /\ ~user_is_admin(reading.author))
       => reading.outcome = "not_allowed" /\ gateway.id \notin Live
  /\ \A id \in Live :
       ~(user_is_ignored(tasks[id].user) /\ ~user_is_admin(tasks[id].user))

\* An ignored caller who is no admin sent a command of the table.
C3_Witness ==
  /\ LastWasRead /\ LastIsCommand
  /\ user_is_ignored(reading.author) /\ ~user_is_admin(reading.author)
  /\ reading.outcome = "not_allowed"

\* C4: for a caller who is no admin and a command marked
\* require_public_channel, the check in a private channel raises "This
\* command must be run in a public channel." and the handler does not run
\* (the only call is the reply with that text); in a public channel the
\* check does not deny the command.
C4_PublicChannelOnly ==
  /\ \A u \in Users, com \in CommandNames :
       (~user_is_admin(u) /\ Flag(bot_commands[com], "require_public_channel"))
         => /\ \A c \in Channels :
                 check_bot_command_restrictions(c, u, bot_commands[com])
                   = IF is_private[c] THEN PublicChannelError ELSE None
  /\ (LastWasRead /\ LastIsCommand /\ ~user_is_admin(reading.author)
        /\ Flag(LastEntry, "require_public_channel") /\ is_private[reading.channel])
       => /\ reading.outcome # "handler"
          /\ (reading.outcome = "denied" /\ gateway.id \in Live)
               => /\ HandlerCalls(tasks[gateway.id]) = << >>
                  /\ tasks[gateway.id].log[1].op = "send_chat"
                  /\ tasks[gateway.id].log[1].text = <<PublicChannelError, "">>
                  /\ Len(tasks[gateway.id].log) = 1

\* A caller who is no admin was denied a public-channel command in a private
\* channel and the reply went out.
C4_Witness ==
  /\ LastWasRead /\ LastIsCommand
  /\ ~user_is_admin(reading.author)
  /\ is_private[reading.channel]
  /\ reading.outcome = "denied"
  /\ gateway.id \in Live
  /\ tasks[gateway.id].log[1].text = <<PublicChannelError, "">>
  /\ tasks[gateway.id].log[1].status = "ok"

\* The last message is `say SERVER CHANNEL MESSAGE` of a caller who is no
\* admin.
NonAdminSay ==
  /\ LastWasRead
  /\ gateway.content.bang /\ gateway.content.name = "say"
  /\ Len(gateway.content.args) = 3
  /\ ~user_is_admin(reading.author)

ResolvedRole(channel, rolename) ==
  LET rs == get_vanity_roles(channel) IN
  IF NoRoles(rs) THEN 0
  ELSE IF FirstRoleNamed(rs, rolename) = 0 THEN 0
  ELSE rs[FirstRoleNamed(rs, rolename)].id

AlreadyHasRole(rolename) == <<"Member {} already has role {}", rolename>>

\* The step is the on_message of `addrole ROLE` by a caller who holds the
\* role ROLE resolves to, and it reaches the handler.
AddroleHeldStep ==
  /\ gateway'.id = gateway.id + 1
  /\ reading'.id = gateway'.id
  /\ reading'.outcome = "handler"
  /\ gateway'.content.name = "addrole"
  /\ ResolvedRole(gateway'.channel, gateway'.content.args[1]) # 0
  /\ ResolvedRole(gateway'.channel, gateway'.content.args[1])
       \in UserRoles(gateway'.channel, gateway'.author)

\* C10: addrole ROLE by a caller who holds the vanity role ROLE names ends
\* with the error "Member <name> already has role <ROLE>", relayed to the
\* caller; add_roles is not called, no success message is sent and the
\* member's roles stay as they are.
C10_AddroleAlreadyHeld ==
  /\ [][AddroleHeldStep
          => /\ roles' = roles
             /\ gateway'.id \in DOMAIN tasks'
             /\ Len(tasks'[gateway'.id].log) = 1
             /\ tasks'[gateway'.id].log[1].op = "send_chat"
             /\ tasks'[gateway'.id].log[1].by = "dispatcher"
             /\ tasks'[gateway'.id].log[1].text
                  = AlreadyHasRole(gateway'.content.args[1])
             /\ tasks'[gateway'.id].todo = << >>]_vars
  /\ [](\A id \in Live :
          (tasks[id].log # << >> /\ tasks[id].command = "addrole"
             /\ \E r \in DOMAIN Lower : tasks[id].log[1].text = AlreadyHasRole(r))
            => /\ tasks[id].todo = << >>
               /\ Len(tasks[id].log) = 1)

\* The reply "already has role" went out for an addrole.
C10_Witness ==
  \E id \in Live :
    /\ tasks[id].command = "addrole"
    /\ tasks[id].log # << >>
    /\ tasks[id].log[1].text = AlreadyHasRole("OGRE")
    /\ tasks[id].log[1].status = "ok"
    /\ tasks[id].pc = "done"

(***************************************************************************)
(* SpecCache: the source cache under the clock, with messages in every     *)
(* channel and handlers that stay suspended across later messages.         *)
(***************************************************************************)
NextCache ==
  \/ Start
  \/ \E d \in TickSteps : Tick(d)
  \/ /\ gateway.id < MaxMsgs
     /\ \E c \in Channels, u \in {1, 2},
           content \in {Chat("hello"), Command("glasses", << >>)} :
          on_message(c, u, content)
  \/ \E id \in Live, ok \in BOOLEAN : Complete(id, ok)
  \/ \E id \in Live : Wake(id)
  \/ \E id \in Live : Finish(id)

InitCache == Init /\ conf.admins = {1}

SpecCache == InitCache /\ [][NextCache]_vars

\* The step is an on_message.
Delivery == gateway'.id # gateway.id

\* The source the cache holds for the channel had expired at time t.
Expired(s, t) == t - s.time_last_message > _channel_idle_timeout

\* C1: an on_message handled while logged in at time t removes every cached
\* source idle for longer than the timeout before it looks the channel up;
\* when the channel's own source had expired, the message is served by a
\* source constructed in this step (no object of the old cache), and in
\* every case the serving source is cached for the channel with time t.
C1_Eviction ==
  [][(Delivery /\ is_logged_in)
       => /\ \A s \in sources :
               Expired(s, now) => \A s2 \in sources' : s2.id # s.id
          /\ reading'.id = gateway'.id
          /\ (\E s \in sources : s.channel = gateway'.channel /\ Expired(s, now))
               => /\ reading'.source \notin {s.id : s \in sources}
                  /\ reading'.source > next_source
          /\ \E s \in sources' :
               /\ s.id = reading'.source
               /\ s.channel = gateway'.channel
               /\ s.time_last_message = now]_vars

\* The handler of message 1 is still suspended, holding the source it was
\* given, when message 2 arrives in the same channel after the timeout and
\* is served by a new source.
C1_Witness ==
  /\ 1 \in Live
  /\ gateway.id = 2
  /\ reading.id = 2
  /\ tasks[1].channel = gateway.channel
  /\ tasks[1].source = 1
  /\ reading.source = 2
  /\ sources = {[id |-> 2, channel |-> gateway.channel, time_last_message |-> now]}
  /\ now > _channel_idle_timeout

\* C9 as stated: every message the gateway has delivered was handed to
\* read_chat on its channel's source: the last message read is the last
\* message delivered.
C9_NothingDropped ==
  /\ reading.id = gateway.id
  /\ gateway.id > 0 => reading.channel = gateway.channel

\* C9, amended: every message the gateway delivers while the client is
\* logged in is handed to read_chat in the step that delivers it, on a
\* cached source of its channel and with its author; read_chat is called in
\* no other step, so the calls follow the order of delivery, one per message,
\* also while handlers of earlier messages are suspended.  A message
\* delivered while the client is not logged in is dropped.
C9_DeliveryOrder ==
  /\ [][Delivery
          => /\ gateway'.id = gateway.id + 1
             /\ is_logged_in
                  => /\ reading'.id = gateway'.id
                     /\ reading'.channel = gateway'.channel
                     /\ reading'.author = gateway'.author
                     /\ \E s \in sources' :
                          s.id = reading'.source /\ s.channel = gateway'.channel
             /\ ~is_logged_in => reading' = reading]_vars
  /\ [][reading' # reading => Delivery]_vars
  /\ [](reading.id <= gateway.id)

\* Message 2 was read in the channel of message 1 while the handler of
\* message 1 was suspended in a sleep.
C9_Witness ==
  /\ 1 \in Live
  /\ tasks[1].pc = "sleep"
  /\ gateway.id = 2
  /\ reading.id = 2
  /\ reading.channel = tasks[1].channel
  /\ reading.source = tasks[1].source
  /\ 2 \in Live

(***************************************************************************)
(* SpecAnim: the animated commands, several at once, with outbound calls   *)
(* that may fail.                                                          *)
(***************************************************************************)
InitAnim == Init /\ conf.admins = {}

NextAnim ==
  \/ Start
  \/ /\ gateway.id < MaxAnims
     /\ \E c \in {"chanA", "chanB"}, name \in AnimatedCommands :
          on_message(c, 1, Command(name, << >>))
  \/ \E id \in Live, ok \in BOOLEAN : Complete(id, ok)
  \/ \E id \in Live : Wake(id)
  \/ \E id \in Live : Finish(id)

SpecAnim == InitAnim /\ [][NextAnim]_vars

\* The frames of each animation, in the order of its source: the call, the
\* lines of the frame and the frame's parameter.
Frames ==
  [glasses |-> << <<"send_message", <<"( o_o)">>, 0>>,
                  <<"edit_message", <<"( o_o)>-#-#">>, 0>>,
                  <<"edit_message", <<"(-#_#)">>, 0>> >>,
   deal |-> << <<"send_message",
                 <<"            ", "            ", "            ", "    (o_o)   ">>, 0>>,
               <<"edit_message",
                 <<"    -#-#    ", "            ", "            ", "    (o_o)   ">>, 0>>,
               <<"edit_message",
                 <<"            ", "    -#-#    ", "            ", "    (o_o)   ">>, 0>>,
               <<"edit_message",
                 <<"            ", "            ", "    -#-#    ", "    (o_o)   ">>, 0>>,
               <<"edit_message",
                 <<"            ", "deal with it", "            ", "   (-#_#)   ">>, 0>> >>,
   dance |-> << <<"send_message", <<":D|-<">>, 0>>,
                <<"edit_message", <<":D/-<">>, 0>>,
                <<"edit_message", <<":D|-<">>, 0>>,
                <<"edit_message", <<":D\\\\-<">>, 0>>,
                <<"edit_message", <<":D|-<">>, 0>>,
                <<"edit_message", <<":D/-<">>, 0>>,
                <<"edit_message", <<":D|-<">>, 0>>,
                <<"edit_message", <<":D\\\\-<">>, 0>>,
                <<"edit_message", <<":D|-<">>, 0>> >>,
   botdance |-> << <<"send_message", <<"L[^_^]7">>, 0>>,
                   <<"edit_message", <<"r[^_^]J">>, 0>>,
                   <<"edit_message", <<"L[^_^]7">>, 0>>,
                   <<"edit_message", <<"r[^_^]J">>, 0>>,
                   <<"edit_message", <<"L[^_^]7">>, 0>> >>,
   firestorm |-> << <<"send_message", <<"floor">>, 0>>,
                    <<"edit_message", <<"explosion">>, 1>>,
                    <<"edit_message", <<"explosion">>, 3>>,
                    <<"edit_message", <<"fire">>, 0>>,
                    <<"edit_message", <<"fire">>, 1>>,
                    <<"edit_message", <<"fire">>, 2>> >>,
   glaciate |-> << <<"send_message", <<"floor">>, 0>>,
                   <<"edit_message", <<"explosion">>, 1>>,
                   <<"edit_message", <<"explosion">>, 3>>,
                   <<"edit_message", <<"explosion">>, 5>>,
                   <<"edit_message", <<"explosion">>, 7>>,
                   <<"edit_message", <<"ice">>, 0>> >>]

\* The coroutine runs (or ran) the handler of an animated command.
IsAnimation(t) == t.command \in AnimatedCommands /\ (t.in_handler \/ HandlerCalls(t) # << >>)

\* The handler's calls so far are the first frames of its animation, each
\* edit on the message its send created.
InFrameOrder(t) ==
  LET calls == HandlerCalls(t) IN
  /\ Len(calls) <= Len(Frames[t.command])
  /\ \A k \in 1 .. Len(calls) :
       /\ <<calls[k].op, calls[k].text, calls[k].n>> = Frames[t.command][k]
       /\ k = 1 => calls[k].to = t.channel
       /\ k > 1 => /\ calls[1].status = "ok"
                   /\ calls[k].target = t.handle
                   /\ t.handle # 0

\* The coroutine ended with no call failed.
EndedWell(t) ==
  /\ t.pc = "done"
  /\ \A k \in 1 .. Len(t.log) : t.log[k].status = "ok"

\* C6: the calls of every execution of an animated command are, in order,
\* the frames of its animation: one send_message first, then only
\* edit_message calls on the message that send created, frame after frame;
\* an execution that ends with no call failed has issued all of them.
C6_FrameOrder ==
  \A id \in Live :
    IsAnimation(tasks[id])
      => /\ InFrameOrder(tasks[id])
         /\ EndedWell(tasks[id])
              => Len(HandlerCalls(tasks[id])) = Len(Frames[tasks[id].command])

\* A dance ran through all of its nine frames.
C6_Witness ==
  \E id \in Live :
    /\ tasks[id].command = "dance"
    /\ EndedWell(tasks[id])
    /\ Len(HandlerCalls(tasks[id])) = 9

\* C7: once a send or an edit of an animation has failed, the handler makes
\* no further call: the failed call is the last of the handler's calls, the
\* rest of the sequence is dropped, and no frame is issued a second time.
C7_AbortOnFailure ==
  \A id \in Live :
    IsAnimation(tasks[id])
      => LET calls == HandlerCalls(tasks[id]) IN
         /\ \A k \in 1 .. Len(calls) - 1 : calls[k].status = "ok"
         /\ (calls # << >> /\ calls[Len(calls)].status = "failed")
              => /\ ~tasks[id].in_handler
                 /\ \A k \in 1 .. Len(tasks[id].todo) :
                      tasks[id].todo[k].op \notin {"edit_message", "send_message"}
         /\ Len(calls) <= Len(Frames[tasks[id].command])

\* An edit in the middle of a deal failed and the coroutine came to its end.
C7_Witness ==
  \E id \in Live :
    /\ tasks[id].command = "deal"
    /\ tasks[id].pc = "done"
    /\ Len(HandlerCalls(tasks[id])) = 3
    /\ HandlerCalls(tasks[id])[3].status = "failed"

\* C8: an animation is suspended at each of its delays and outbound calls:
\* a step runs one coroutine only, issues at most one frame, and every frame
\* after the first is issued when its animation wakes from a sleep; so other
\* messages are handled in between, and animations running at once keep
\* their own frame order, each on its own message.
C8_Interleaving ==
  /\ [][\A id \in Live \cap DOMAIN tasks' :
          LET before == HandlerCalls(tasks[id])
              after == HandlerCalls(tasks'[id])
          IN (IsAnimation(tasks[id]) /\ Len(after) > Len(before))
               => /\ tasks[id].pc = "sleep"
                  /\ Len(after) = Len(before) + 1
                  /\ \A other \in Live \ {id} :
                       other \in DOMAIN tasks' /\ tasks'[other] = tasks[other]]_vars
  /\ [](\A a \in Live, b \in Live :
          (a # b /\ tasks[a].handle # 0) => tasks[a].handle # tasks[b].handle)
  /\ [](\A id \in Live : IsAnimation(tasks[id]) => InFrameOrder(tasks[id]))

\* While the dance of message 1 is asleep between two frames, the animation
\* of message 2 in the same channel has run from its start to its end.
C8_Witness ==
  /\ 1 \in Live /\ 2 \in Live
  /\ tasks[1].command = "dance"
  /\ tasks[1].pc = "sleep"
  /\ Len(HandlerCalls(tasks[1])) \in 2 .. 8
  /\ tasks[2].channel = tasks[1].channel
  /\ EndedWell(tasks[2])
  /\ Len(HandlerCalls(tasks[2])) = Len(Frames[tasks[2].command])

(***************************************************************************)
(* SpecLife: login, on_ready, the ping tasks and disconnect.               *)
(***************************************************************************)
InitLife == conf \in {FakeConf, RateConf} /\ InitManager

NextLife ==
  \/ Start
  \/ Len(pings) < MaxReady /\ on_ready
  \/ \E i \in DOMAIN pings, ok \in BOOLEAN : PingStep(i, ok)
  \/ /\ disc.calls < MaxDisconnects
     /\ \E flag \in BOOLEAN, close_ok \in BOOLEAN : disconnect(flag, close_ok)
  \/ \E close_ok \in BOOLEAN : RunScheduled(close_ok)

SpecLife == InitLife /\ [][NextLife]_vars

\* The step is a call of disconnect.
Disconnecting == disc'.calls = disc.calls + 1

C18_NoPingAfterDisconnect ==
  [][\A i \in DOMAIN pings :
       pings[i].disconnected
         => ~(pings[i].pc # "ping" /\ pings'[i].pc = "ping")]_vars

(***************************************************************************)
(* SpecConf: messages with the configuration changed between them.         *)
(***************************************************************************)
NextConf ==
  \/ Start
  \/ \E c \in ConfChoices : SetConf(c)
  \/ /\ gateway.id < MaxMsgs
     /\ \E u \in {1, 2}, content \in {Chat("hello"), Command("botstatus", << >>)} :
          on_message("chanA", u, content)
  \/ \E id \in Live, ok \in BOOLEAN : Complete(id, ok)
  \/ \E id \in Live : Finish(id)

SpecConf == Init /\ [][NextConf]_vars

\* The user is on the list of the configuration as it is now, and a member
\* of a server.
ListedAdmin(u) == u \in conf.admins /\ \E s \in Servers : u \in ServerMembers[s]
ListedIgnored(u) == u \in conf.ignored_users /\ \E s \in Servers : u \in ServerMembers[s]

\* C12: the outcome of every message follows the configuration as it is
\* when the message is handled, whatever it was before and whether the
\* source is a new one or the cached one: a user now ignored (and no admin)
\* is not served, botstatus (admin only) is denied to a user who is no admin
\* now and run for a user who is one now.
C12_LiveConfiguration ==
  [][(Delivery /\ is_logged_in)
       => LET u == gateway'.author
              botstatus == gateway'.content = Command("botstatus", << >>)
          IN /\ (~ListedAdmin(u) /\ (ListedIgnored(u) \/ u \in BotUsers))
                  = (reading'.outcome = "not_allowed")
             /\ (botstatus /\ ~ListedAdmin(u) /\ ~ListedIgnored(u) /\ u \notin BotUsers)
                  => reading'.outcome = "denied"
             /\ (botstatus /\ ListedAdmin(u))
                  => reading'.outcome \in {"handler", "throttled"}]_vars

\* User 1 ran botstatus as an admin (its handler is still suspended); the
\* list of admins changed; the next botstatus of user 1, read by the same
\* cached source, is denied.
C12_Witness ==
  /\ 1 \in Live
  /\ tasks[1].command = "botstatus"
  /\ tasks[1].user = 1
  /\ HandlerCalls(tasks[1]) # << >>
  /\ gateway.id = 2
  /\ gateway.author = 1
  /\ gateway.content = Command("botstatus", << >>)
  /\ reading.id = 2
  /\ reading.source = tasks[1].source
  /\ reading.outcome = "denied"

(***************************************************************************)
(* SpecRate: logged and unlogged commands, and commands with an argument   *)
(* missing, against a limit of two invocations per window, with the clock. *)
(***************************************************************************)
InitRate == conf = RateConf /\ InitManager

\* Invocations with a required argument left out.
Incomplete ==
  {Command("addrole", << >>), Command("removerole", << >>),
   Command("say", << >>), Command("say", <<"rogue">>),
   Command("say", <<"rogue", "gen">>)}

NextRate ==
  \/ Start
  \/ \E d \in TickSteps : Tick(d)
  \/ /\ gateway.id < MaxRateMsgs
     /\ Live = {}
     /\ \E u \in {1, 2},
           content \in {Command("botstatus", << >>), Command("listcommands", << >>)}
                         \cup Incomplete :
          on_message("chanA", u, content)
  \/ \E id \in Live, ok \in BOOLEAN : Complete(id, ok)
  \/ \E id \in Live : Finish(id)

SpecRate == InitRate /\ [][NextRate]_vars

\* The commands the table marks unlogged.
Unlogged ==
  {"listcommands", "bothelp", "listroles", "glasses", "deal", "dance",
   "botdance", "firestorm", "glaciate"}

\* The rate limit state of the source that serves the message of this step,
\* as it was before the step, and the part of it inside the window.
TimesBefore ==
  IF reading'.source \in DOMAIN message_times
  THEN message_times[reading'.source] ELSE << >>
InWindow == SelectSeq(TimesBefore, LAMBDA x : now - x <= conf.command_period)

\* C13: a logged invocation (botstatus by an admin) made when the window
\* holds as many invocations as the limit is denied and not recorded; made
\* when it holds fewer, it runs and is recorded with the time, so one made
\* after the oldest entries left the window runs again.  An unlogged command
\* runs whatever the state of the limit and leaves the state as it is.
C13_RateLimit ==
  [][(Delivery /\ is_logged_in /\ gateway'.author \in conf.admins)
       => /\ (gateway'.content.name = "botstatus" /\ Len(InWindow) >= conf.command_limit)
               => /\ reading'.outcome = "throttled"
                  /\ message_times'[reading'.source] = InWindow
          /\ (gateway'.content.name = "botstatus" /\ Len(InWindow) < conf.command_limit)
               => /\ reading'.outcome = "handler"
                  /\ message_times'[reading'.source] = Append(InWindow, now)
          /\ (gateway'.content.name \in Unlogged /\ gateway'.content.args = << >>)
               => /\ reading'.outcome = "handler"
                  /\ message_times'[reading'.source] = TimesBefore]_vars

\* The third botstatus, 899 seconds after two that were recorded together,
\* is denied: no entry has left the window yet.
C13_Witness ==
  /\ gateway.id >= 3
  /\ gateway.content.name = "botstatus"
  /\ reading.id = gateway.id
  /\ reading.outcome = "throttled"
  /\ Len(message_times[reading.source]) = 2
  /\ message_times[reading.source][1] = now - 899

\* The usage string of the three commands with a required argument.
UsageOf ==
  [addrole |-> <<"ROLE">>, removerole |-> <<"ROLE">>,
   say |-> <<"SERVER", "CHANNEL", "MESSAGE">>]

\* C14: addrole, removerole or say sent by an allowed caller with a required
\* argument left out gets the syntax-error reply with the usage string of
\* the command; the reply is all the invocation does: the handler is not
\* entered, and the rate limit state of the source stays as it was.
C14_MissingArgument ==
  [][(Delivery /\ is_logged_in /\ gateway'.content \in Incomplete
        /\ (gateway'.author \in conf.admins \/ gateway'.author \notin BotUsers \cup conf.ignored_users))
       => LET id == gateway'.id IN
          /\ reading'.outcome = "syntax_error"
          /\ id \in DOMAIN tasks'
          /\ ~tasks'[id].in_handler
          /\ tasks'[id].todo = << >>
          /\ HandlerCalls(tasks'[id]) = << >>
          /\ Len(tasks'[id].log) = 1
          /\ tasks'[id].log[1].op = "send_chat"
          /\ tasks'[id].log[1].to = gateway'.channel
          /\ tasks'[id].log[1].text = <<"Usage: {}">> \o UsageOf[gateway'.content.name]
          /\ message_times'[reading'.source] = TimesBefore]_vars
  /\ [](\A id \in Live : (reading.id = id /\ reading.outcome = "syntax_error")
                            => HandlerCalls(tasks[id]) = << >>)

\* After one recorded invocation, a say with its MESSAGE left out got the
\* usage reply, the reply was delivered, and the rate limit state still
\* holds the one entry.
C14_Witness ==
  /\ gateway.content = Command("say", <<"rogue", "gen">>)
  /\ reading.id = gateway.id
  /\ reading.outcome = "syntax_error"
  /\ gateway.id \in Live
  /\ tasks[gateway.id].pc = "done"
  /\ tasks[gateway.id].log[1].status = "ok"
  /\ Len(message_times[reading.source]) = 1

(***************************************************************************)
(* The random perturbation of the frames of firestorm and glaciate.        *)
(* Strings are sequences of characters; positions in the source count from *)
(* 0, in the sequences from 1.                                             *)
(***************************************************************************)
\* string[:c] + ch + string[c + 1:]
PutChar(string, c, ch) ==
  SubSeq(string, 1, c) \o <<ch>> \o SubSeq(string, c + 2, Len(string))

\* for c in coords: string = string[:c] + ch + string[c + 1:]
RECURSIVE PutChars(_, _, _)
PutChars(string, coords, ch) ==
  IF coords = {} THEN string
  ELSE LET c == CHOOSE x \in coords : TRUE
       IN PutChars(PutChar(string, c, ch), coords \ {c}, ch)

\* random.sample(range(0, n), num): num distinct positions below n.
Samples(n, num) == {cs \in SUBSET (0 .. n - 1) : Cardinality(cs) = num}

\* block_max taken as the whole length of the target.
glaciate_block_max_whole(target) == Len(target)

\* block_max = max(1, int(len(target) / 2))
glaciate_block_max(target) ==
  IF Len(target) \div 2 > 1 THEN Len(target) \div 2 ELSE 1

\* The sets of positions glaciate can draw for the target: none when the
\* target has one character, else random.randint(1, block_max) of them.
glaciate_draws(target) ==
  IF Len(target) > 1
  THEN UNION {Samples(Len(target), num) : num \in 1 .. glaciate_block_max(target)}
  ELSE {{}}

\* blasted: the target with '8' at the positions drawn.
glaciate_blasted(target, coords) == PutChars(target, coords, "8")

\* A row of fire_lines.
fire_line == [k \in 1 .. 15 |-> IF k \in 5 .. 11 THEN "$" ELSE "."]

\* The sets of positions firestorm can draw for a row:
\* random.sample(range(0, 7), random.randint(1, 4)).
firestorm_draws == UNION {Samples(7, num) : num \in 1 .. 4}

\* for c in coords: lines[n] = lines[n][:4 + c] + 'v' + lines[n][4 + c + 1:]
firestorm_row(line, coords) == PutChars(line, {4 + c : c \in coords}, "v")

\* The rows of the frame other than the middle one (mid = int(7 / 2)).
firestorm_rows == (0 .. 6) \ {7 \div 2}

\* The targets of SpecFrames: one to MaxTarget characters.
Targets == {[k \in 1 .. n |-> "x"] : n \in 1 .. MaxTarget}

\* The command is invoked with a target.
Invoke(effect, target) ==
  /\ fx.effect = None
  /\ fx' = [effect |-> effect, target |-> target, row |-> 0, coords |-> {},
            before |-> << >>, after |-> << >>, step |-> "invoked"]
  /\ UNCHANGED <<now, is_logged_in, is_closed, ping_task, shutdown, conf,
                 sources, next_source, roles, debug, gateway, reading, tasks,
                 life, member, message_times>>

\* The last frame of glaciate: the target is blasted.
Glaciate(coords) ==
  /\ fx.effect = "glaciate"
  /\ coords \in glaciate_draws(fx.target)
  /\ fx' = [fx EXCEPT !.coords = coords, !.before = fx.target,
                      !.after = glaciate_blasted(fx.target, coords)]
  /\ UNCHANGED <<now, is_logged_in, is_closed, ping_task, shutdown, conf,
                 sources, next_source, roles, debug, gateway, reading, tasks,
                 life, member, message_times>>

\* Row n of a fire frame of firestorm is drawn.
FireRow(n, coords) ==
  /\ fx.effect = "firestorm"
  /\ n \in firestorm_rows
  /\ coords \in firestorm_draws
  /\ fx' = [fx EXCEPT !.row = n, !.coords = coords, !.before = fire_line,
                      !.after = firestorm_row(fire_line, coords)]
  /\ UNCHANGED <<now, is_logged_in, is_closed, ping_task, shutdown, conf,
                 sources, next_source, roles, debug, gateway, reading, tasks,
                 life, member, message_times>>

NextFrames ==
  \/ \E effect \in {"firestorm", "glaciate"}, target \in Targets :
       Invoke(effect, target)
  \/ \E n \in 0 .. 6, coords \in SUBSET (0 .. 6) : FireRow(n, coords)
  \/ \E coords \in SUBSET (0 .. MaxTarget - 1) : Glaciate(coords)

SpecFrames == InitRate /\ [][NextFrames]_vars

\* The positions (from 1) where the perturbation changed the string.
Mutated == {k \in 1 .. Len(fx.before) : fx.after[k] # fx.before[k]}

\* max(1, floor(len(target) / 2))
HalfBound == IF Len(fx.target) \div 2 > 1 THEN Len(fx.target) \div 2 ELSE 1

\* C15 as stated: in both effects the number of positions mutated is at
\* most the maximum derived from the length of the target.
C15_BoundFromTarget ==
  fx.after # << >> => Cardinality(Mutated) <= HalfBound

\* C15, amended: glaciate replaces between 1 and max(1, floor(len/2))
\* characters of a target of two characters or more, at positions inside
\* the target, and none of a target of one character.  firestorm mutates
\* between 1 and 4 cells of each row other than the middle one, whatever
\* the target, all of them inside the row, in the block of columns 4 to 10.
C15_PerturbationBounds ==
  /\ (fx.effect = "glaciate" /\ fx.after # << >>)
       => /\ Len(fx.after) = Len(fx.target)
          /\ Len(fx.target) = 1 => Mutated = {}
          /\ Len(fx.target) > 1
               => /\ Cardinality(Mutated) >= 1
                  /\ Cardinality(Mutated) <= HalfBound
          /\ \A k \in Mutated : fx.after[k] = "8"
  /\ (fx.effect = "firestorm" /\ fx.after # << >>)
       => /\ Len(fx.after) = 15
          /\ Cardinality(Mutated) \in 1 .. 4
          /\ \A k \in Mutated : k \in 5 .. 11 /\ fx.after[k] = "v"
          /\ fx.row # 3

\* glaciate replaced two characters of a target of five, the most it may.
C15_Witness ==
  /\ fx.effect = "glaciate"
  /\ Len(fx.target) = 5
  /\ Cardinality(Mutated) = 2

(***************************************************************************)
(* Who is served.                                                          *)
(***************************************************************************)
\* C16: is_allowed_user is true of a user exactly when the user is an
\* admin, or is neither an automated account nor ignored; user_is_admin
\* has a boolean answer for every user and is false for all of them when
\* no admin is configured.  A message that was read was refused as not
\* allowed exactly when its author is not such a user.
C16_AllowedUser ==
  /\ \A u \in Users :
       /\ user_is_admin(u) \in BOOLEAN
       /\ user_is_admin(u) = ListedAdmin(u)
       /\ conf.admins = {} => ~user_is_admin(u)
       /\ is_allowed_user(u)
            = (ListedAdmin(u) \/ (u \notin BotUsers /\ ~ListedIgnored(u)))
  /\ LastWasRead
       => (reading.outcome = "not_allowed")
            = ~(ListedAdmin(reading.author)
                  \/ (reading.author \notin BotUsers
                        /\ ~ListedIgnored(reading.author)))

\* A command of an automated account that is an admin was read and not
\* refused.
C16_Witness ==
  /\ LastWasRead /\ LastIsCommand
  /\ reading.author \in BotUsers
  /\ ListedAdmin(reading.author)
  /\ reading.outcome # "not_allowed"

(***************************************************************************)
(* The streaming role (on_member_update).                                  *)
(***************************************************************************)
\* after.game: None, or a game with its type (1 is streaming).
Games == {None, "playing", "streaming"}
GameType == [playing |-> 0, streaming |-> 1]

\* streaming_role = None: no role id.
NoRole == 0

\* The first role of the server whose name is "streaming" as it is written.
streaming_role_exact(server) ==
  LET rs == ServerRoles[server]
      at == {k \in 1 .. Len(rs) : rs[k].name = "streaming"}
  IN IF at = {} THEN NoRole
     ELSE rs[CHOOSE k \in at : \A m \in at : k <= m].id

\* The first role r of after.server.roles with r.name.lower() == "streaming".
streaming_role(server) ==
  LET rs == ServerRoles[server]
      at == {k \in 1 .. Len(rs) : Lower[rs[k].name] = "streaming"}
  IN IF at = {} THEN NoRole
     ELSE rs[CHOOSE k \in at : \A m \in at : k <= m].id

\* The role call on_member_update makes for the member, None for no call.
member_call(server, user, game) ==
  LET role == streaming_role(server)
      streams == game # None /\ GameType[game] = 1
  IN IF ~conf.set_streaming_role THEN None
     ELSE IF role = NoRole THEN None
     ELSE IF streams /\ role \notin roles[server][user] THEN "add_roles"
     ELSE IF ~streams /\ role \in roles[server][user] THEN "remove_roles"
     ELSE None

\* The member update event, up to the role call (if it makes one).
on_member_update(server, user, game) ==
  /\ member.pc # "await"
  /\ user \in ServerMembers[server]
  /\ LET call == member_call(server, user, game)
         role == streaming_role(server)
     IN member' = [id |-> member.id + 1, server |-> server, user |-> user,
                   game |-> game,
                   held |-> role \in roles[server][user],
                   call |-> call,
                   pc |-> IF call = None THEN "done" ELSE "await"]
  /\ UNCHANGED <<now, is_logged_in, is_closed, ping_task, shutdown, conf,
                 sources, next_source, roles, debug, gateway, reading, tasks,
                 life, fx, message_times>>

\* The role call of on_member_update returns, or raises.
MemberCallDone(ok) ==
  /\ member.pc = "await"
  /\ LET role == streaming_role(member.server)
     IN roles' =
          IF ~ok THEN roles
          ELSE IF member.call = "add_roles"
          THEN [roles EXCEPT ![member.server][member.user] = @ \cup {role}]
          ELSE [roles EXCEPT ![member.server][member.user] = @ \ {role}]
  /\ member' = [member EXCEPT !.pc = IF ok THEN "done" ELSE "failed"]
  /\ UNCHANGED <<now, is_logged_in, is_closed, ping_task, shutdown, conf,
                 sources, next_source, debug, gateway, reading, tasks,
                 life, fx, message_times>>

NextMember ==
  \/ /\ member.id < MaxUpdates
     /\ \E server \in Servers, user \in {1, 2}, game \in Games :
          on_member_update(server, user, game)
  \/ \E ok \in BOOLEAN : MemberCallDone(ok)

SpecMember == Init /\ [][NextMember]_vars

\* The roles of the server named "streaming" in any case of the letters.
StreamingRoles(server) ==
  {ServerRoles[server][k].id : k \in
     {m \in 1 .. Len(ServerRoles[server]) :
        ServerRoles[server][m].name \in {"streaming", "Streaming"}}}

\* The member of the last update holds a streaming role of the server.
HoldsStreaming ==
  StreamingRoles(member.server) \cap roles[member.server][member.user] # {}

\* C17: when on_member_update has completed with set_streaming_role on
\* and a role named "streaming", in any case, on the server, the member
\* holds that role exactly if the game of the member has type 1.
\* add_roles is called only for a member who streams and lacks the role,
\* remove_roles only for one who does not stream and holds it, and no call
\* is made when the two agree already, when the feature is off or when the
\* server has no streaming role.
C17_StreamingRole ==
  member.id > 0
    => LET on == conf.set_streaming_role
           has == StreamingRoles(member.server) # {}
           streams == member.game = "streaming"
       IN /\ (member.pc = "done" /\ on /\ has) => (HoldsStreaming = streams)
          /\ member.call = "add_roles"
               => on /\ has /\ streams /\ ~member.held
          /\ member.call = "remove_roles"
               => on /\ has /\ ~streams /\ member.held
          /\ (~on \/ ~has \/ member.held = streams) => member.call = None
          /\ member.call \in {None, "add_roles", "remove_roles"}

\* A member who held the streaming role stopped streaming: remove_roles was
\* called and the member holds the role no more.
C17_Witness ==
  /\ member.pc = "done"
  /\ member.call = "remove_roles"
  /\ member.game # "streaming"
  /\ ~HoldsStreaming

(***************************************************************************)
(* addrole and removerole (Spec).                                          *)
(***************************************************************************)
\* The texts of the BotCommandException of the two handlers.
RoleCommandErrors ==
  {"No available roles found.", "Unknown role: {}",
   "Member {} already has role {}", "Member {} does not have role {}"}

\* The role calls of a coroutine.
RoleCalls(t) == SelectSeq(t.log, LAMBDA e : e.op \in {"add_roles", "remove_roles"})

\* The last message is an addrole or a removerole and its coroutine has
\* not ended.
LastIsRoleCommand ==
  /\ LastWasRead /\ LastIsCommand
  /\ gateway.content.name \in {"addrole", "removerole"}
  /\ gateway.id \in Live

\* C19: an invocation of addrole or removerole makes at most one role
\* call, add_roles for addrole and remove_roles for removerole, for a role
\* of get_vanity_roles whose lowercased name is the lowercased argument,
\* and only when the call changes what the member holds; a handler that
\* makes no role call ends with a command error shown to the user.
C19_RoleCommands ==
  LastIsRoleCommand
    => LET t == tasks[gateway.id]
           calls == RoleCalls(t)
           vr == get_vanity_roles(t.channel)
           add == gateway.content.name = "addrole"
       IN /\ Len(calls) <= 1
          /\ \A k \in 1 .. Len(calls) :
               /\ calls[k].op = IF add THEN "add_roles" ELSE "remove_roles"
               /\ vr # None
               /\ \E i \in 1 .. Len(vr) :
                    /\ vr[i].id = calls[k].n
                    /\ Lower[vr[i].name] = Lower[gateway.content.args[1]]
               /\ calls[k].status = "pending"
                    => (calls[k].n \in UserRoles(t.channel, t.user)) = ~add
               /\ calls[k].status = "ok"
                    => (calls[k].n \in UserRoles(t.channel, t.user)) = add
          /\ (reading.outcome = "handler" /\ calls = << >>)
               => /\ t.log # << >>
                  /\ t.log[1].op = "send_chat"
                  /\ t.log[1].by = "dispatcher"
                  /\ t.log[1].text[1] \in RoleCommandErrors

(***************************************************************************)
(* SpecOwn: the source cache under every event of the manager: messages,   *)
(* the results of the calls of their handlers, the clock, disconnect and   *)
(* member updates.                                                         *)
(***************************************************************************)
InitOwn == conf \in {c \in ConfChoices : c.admins = {1}} /\ InitManager

NextOwn ==
  \/ Start
  \/ Tick(_channel_idle_timeout \div 2)
  \/ /\ gateway.id < MaxMsgs
     /\ \E c \in {"chanA", "pm"},
           content \in {Chat("hello"), Command("listroles", << >>)} :
          on_message(c, 1, content)
  \/ \E id \in Live, ok \in BOOLEAN : Complete(id, ok)
  \/ \E id \in Live : Finish(id)
  \/ /\ disc.calls < MaxDisconnects
     /\ \E close_ok \in BOOLEAN : disconnect(TRUE, close_ok)
  \/ /\ member.id < MaxUpdates
     /\ \E game \in Games : on_member_update("srvB", 1, game)
  \/ \E ok \in BOOLEAN : MemberCallDone(ok)

SpecOwn == InitOwn /\ [][NextOwn]_vars

\* The source has been idle for the timeout at time t.
Idle(s, t) == t - s.time_last_message >= _channel_idle_timeout

\* The objects of a cache.
Ids(cache) == {s.id : s \in cache}

\* C20: a step takes a source out of the cache only if it is an on_message
\* handled while logged in and the source has been idle for the timeout;
\* a step puts a source into the cache only if it is such an on_message,
\* the source is the only one added, it is a new object for the channel of
\* the message and no source the step leaves in the cache is for that
\* channel.  The result of a call, the end of a coroutine, disconnect, the
\* clock and a member update leave the cache as it is.
C20_CacheOwnership ==
  [][/\ \A s \in sources :
          s.id \notin Ids(sources')
            => Delivery /\ is_logged_in /\ Idle(s, now)
     /\ \A s \in sources' :
          s.id \notin Ids(sources)
            => /\ Delivery /\ is_logged_in
               /\ s.channel = gateway'.channel
               /\ s.id > next_source
               /\ \A s2 \in sources' : s2.channel = s.channel => s2.id = s.id
               /\ \A s2 \in sources :
                    s2.channel = s.channel => s2.id \notin Ids(sources')
     /\ ~Delivery => sources' = sources]_vars

\* Two sources were constructed and one of them was swept; the other is
\* still cached after a call of a handler failed, a disconnect whose
\* close() raised and a member update that changed a role.
C20_Witness ==
  /\ next_source = 2
  /\ Cardinality(sources) = 1
  /\ disc.calls > 0
  /\ member.pc = "done"
  /\ member.call = "add_roles"
  /\ \E id \in Live : \E k \in 1 .. Len(tasks[id].log) :
       tasks[id].log[k].status = "failed"

(***************************************************************************)
(* The shape of the source cache (SpecCache).                              *)
(***************************************************************************)
\* No two sources of the cache are for the same channel.
OnePerChannel(cache) ==
  \A s1 \in cache, s2 \in cache : s1.channel = s2.channel => s1 = s2

\* C21: before and after every step, whatever coroutines are suspended, the
\* cache holds at most one source for a channel; a message handled while
\* logged in is read by a cached source for its channel: the one the cache
\* held already, when the sweep of that on_message leaves one.
C21_OneSourcePerChannel ==
  [][/\ OnePerChannel(sources)
     /\ OnePerChannel(sources')
     /\ (Delivery /\ is_logged_in)
          => /\ \E s \in sources' :
                  s.id = reading'.source /\ s.channel = gateway'.channel
             /\ \A s \in sources :
                  (s.channel = gateway'.channel /\ ~Idle(s, now))
                    => /\ reading'.source = s.id
                       /\ next_source' = next_source]_vars

\* While the handler of message 1 is suspended, message 2 arrives in the
\* same channel and is read by the same source, the only one constructed.
C21_Witness ==
  /\ 1 \in Live
  /\ gateway.id = 2
  /\ reading.id = 2
  /\ tasks[1].channel = gateway.channel
  /\ tasks[1].source = 1
  /\ reading.source = 1
  /\ next_source = 1
  /\ Ids(sources) = {1}

\* C22: in every state, that is wherever another event can run, every
\* source of the cache has a time of its last message: never the value it
\* was constructed with, and no later than the clock, so the subtraction of
\* the idle sweep is defined for every source it meets.
C22_TimestampSet ==
  \A s \in sources :
    /\ s.time_last_message # NoTime
    /\ s.time_last_message \in 0 .. now

\* Two sources are cached, one of them constructed by a message whose
\* handler is suspended at its first call.
C22_Witness ==
  /\ Cardinality(sources) = 2
  /\ gateway.id \in Live
  /\ reading.source = next_source
  /\ tasks[gateway.id].pc = "await"
  /\ Len(tasks[gateway.id].log) = 1

\* C23: the sweep of an on_message handled while logged in at time t
\* removes the sources with t - time_last_message >= 1800, the boundary
\* included, and no other; it leaves every other source but the one that
\* reads the message as it was.  After the step every cached source has a
\* time less than 1800 seconds before t and the source of the message has
\* the time t.
C23_SweepExact ==
  [][(Delivery /\ is_logged_in)
       => /\ _channel_idle_timeout = 1800
          /\ \A s \in sources :
               (now - s.time_last_message >= 1800) <=> s.id \notin Ids(sources')
          /\ \A s \in sources :
               (s.id \in Ids(sources') /\ s.id # reading'.source)
                 => s \in sources'
          /\ \A s \in sources' : now - s.time_last_message < 1800
          /\ \E s \in sources' :
               /\ s.id = reading'.source
               /\ s.channel = gateway'.channel
               /\ s.time_last_message = now]_vars

\* A source cached at time 0 was idle for 1800 seconds exactly when the
\* second message came: it is gone and the message has a new source.
C23_Witness ==
  /\ now = _channel_idle_timeout
  /\ gateway.id = 2
  /\ reading.id = 2
  /\ next_source = 2
  /\ sources = {[id |-> 2, channel |-> gateway.channel,
                 time_last_message |-> now]}

\* C24: an on_message that comes while the client is not logged in changes
\* nothing but the record of the event: the cache and the sources in it,
\* the count of sources constructed, the last message read, the rate limit
\* states and the coroutines are as before.
C24_NotLoggedIn ==
  [][(Delivery /\ ~is_logged_in)
       => /\ sources' = sources
          /\ next_source' = next_source
          /\ reading' = reading
          /\ message_times' = message_times
          /\ tasks' = tasks
          /\ debug' = debug
          /\ roles' = roles]_vars

\* Two messages came before the login: none was read and no source exists.
C24_Witness ==
  /\ gateway.id = 2
  /\ ~gateway.logged_in
  /\ reading.id = 0
  /\ next_source = 0
  /\ sources = {}
  /\ Live = {}

(***************************************************************************)
(* SpecCenter: the rows of the frames of firestorm and glaciate that        *)
(* center_string_in_line builds, for targets shorter than the row, as long *)
(* and longer.                                                             *)
(***************************************************************************)
\* int(x / 2): the quotient rounded towards zero.
IntHalf(x) == IF x >= 0 THEN x \div 2 ELSE -((-x) \div 2)

\* A bound of a slice as an offset into a string of n characters: counted
\* from the end when negative, and kept inside the string.
SliceBound(n, i) ==
  IF i < 0 THEN (IF n + i < 0 THEN 0 ELSE n + i)
  ELSE IF i > n THEN n ELSE i

\* string[a:b]
Slice(string, a, b) ==
  LET lo == SliceBound(Len(string), a)
      hi == SliceBound(Len(string), b)
  IN IF hi <= lo THEN << >> ELSE SubSeq(string, lo + 1, hi)

\* string[a:]
SliceFrom(string, a) ==
  LET lo == SliceBound(Len(string), a)
  IN IF Len(string) <= lo THEN << >> ELSE SubSeq(string, lo + 1, Len(string))

center_string_in_line(string, line) ==
  LET leftn == IF Len(string) % 2 = 0
               THEN IntHalf(Len(line) - Len(string)) + 1
               ELSE IntHalf(Len(line) - Len(string))
      rightn == IntHalf(Len(string) - Len(line))
  IN IF Len(string) >= Len(line)
     THEN Slice(string, rightn, leftn)
     ELSE Slice(line, 0, leftn) \o string \o SliceFrom(line, rightn)

\* A row of floor_lines.
floor_line == [k \in 1 .. 15 |-> "."]

\* explosion = "#" + "#" * 2 * radius
explosion_of(radius) == [k \in 1 .. 1 + 2 * radius |-> "#"]

\* floor_lines after the target is centred in its middle row.
floor_lines(target) ==
  [n \in 0 .. 6 |-> IF n = 7 \div 2 THEN center_string_in_line(target, floor_line)
                    ELSE floor_line]

\* The targets of SpecCenter: one to MaxString characters.
LongTargets == {[k \in 1 .. n |-> "x"] : n \in 1 .. MaxString}

\* The middle row of the first frame, of the fire frames of firestorm and
\* of the last frame of glaciate (with the character at c of the target
\* blasted, when it has more than one).
CenterTarget(frame, c) ==
  /\ fx.effect \in {"firestorm", "glaciate"}
  /\ frame \in (IF fx.effect = "firestorm" THEN {"floor", "fire"}
                ELSE {"floor", "ice"})
  /\ c \in (IF frame = "ice" /\ Len(fx.target) > 1
            THEN 0 .. Len(fx.target) - 1 ELSE {0})
  /\ LET line == IF frame = "floor" THEN floor_line ELSE fire_line
         coords == IF frame = "ice" /\ Len(fx.target) > 1 THEN {c} ELSE {}
         string == IF frame = "ice" THEN glaciate_blasted(fx.target, coords)
                   ELSE fx.target
     IN fx' = [fx EXCEPT !.row = 7 \div 2, !.coords = coords, !.before = line,
                         !.after = center_string_in_line(string, line),
                         !.step = frame]
  /\ UNCHANGED <<now, is_logged_in, is_closed, ping_task, shutdown, conf,
                 sources, next_source, roles, debug, gateway, reading, tasks,
                 life, member, message_times>>

\* Row n of an explosion frame of firestorm: the explosion centred in the
\* row of the first frame.
FireExplosion(radius, n) ==
  /\ fx.effect = "firestorm"
  /\ radius \in {1, 3}
  /\ n \in 0 .. 6
  /\ LET line == floor_lines(fx.target)[n]
     IN fx' = [fx EXCEPT !.row = n, !.coords = {}, !.before = line,
                         !.after = center_string_in_line(explosion_of(radius), line),
                         !.step = "explosion"]
  /\ UNCHANGED <<now, is_logged_in, is_closed, ping_task, shutdown, conf,
                 sources, next_source, roles, debug, gateway, reading, tasks,
                 life, member, message_times>>

\* Row 7 - n of an explosion frame of glaciate, n below the radius.
IceExplosion(radius, n) ==
  /\ fx.effect = "glaciate"
  /\ radius \in {1, 3, 5, 7}
  /\ n \in 1 .. radius - 1
  /\ LET line == floor_lines(fx.target)[7 - n]
     IN fx' = [fx EXCEPT !.row = 7 - n, !.coords = {}, !.before = line,
                         !.after = center_string_in_line(explosion_of(n - 1), line),
                         !.step = "explosion"]
  /\ UNCHANGED <<now, is_logged_in, is_closed, ping_task, shutdown, conf,
                 sources, next_source, roles, debug, gateway, reading, tasks,
                 life, member, message_times>>

NextCenter ==
  \/ \E effect \in {"firestorm", "glaciate"}, target \in LongTargets :
       Invoke(effect, target)
  \/ \E frame \in {"floor", "fire", "ice"}, c \in 0 .. MaxString - 1 :
       CenterTarget(frame, c)
  \/ \E radius \in {1, 3}, n \in 0 .. 6 : FireExplosion(radius, n)
  \/ \E radius \in {1, 3, 5, 7}, n \in 1 .. 6 : IceExplosion(radius, n)

SpecCenter == InitRate /\ [][NextCenter]_vars

\* C25: every row center_string_in_line has built for a frame of firestorm
\* or glaciate has the 15 characters of the row it was built from, whatever
\* the length of the target.
C25_RowWidth ==
  fx.step \in {"floor", "fire", "ice", "explosion"} => Len(fx.after) = 15

=============================================================================
